---- MODULE Spec2Model ----
(***************************************************************************)
(* Viewport-chunked DOM perception pipeline of stagehand (the browser-side *)
(* DOM script): candidate discovery by a filtered tree walk, locator       *)
(* generation with a cache, output assembly, the chunk scheduler with its  *)
(* scroll-settle wait, the DOM snapshot pair and the bounding-box          *)
(* resolver.                                                               *)
(*                                                                         *)
(* Strings are sequences of one-character strings.  Lengths are in        *)
(* abstract pixels, the heights of bounding boxes in quarters of a pixel.  *)
(* Time advances in ticks; a quiet window of 100 ms lasts QuietTicks ticks.*)
(***************************************************************************)
EXTENDS Integers, Sequences, FiniteSets, TLC

(***************************************************************************)
(* Bounds of the model                                                     *)
(***************************************************************************)
MaxTextLen == 3        \* longest text of a text node
MaxDocHeight == 5      \* largest document.documentElement.scrollHeight
MaxViewport == 2       \* largest viewport height
MaxFailures == 1       \* locator generations that may fail in one pass
MaxRestores == 1       \* replacements of the body content in one behaviour
QuietTicks == 2         \* ticks of the clock in one quiet window
MaxRetries == 2        \* largest retry count createChatCompletion is called with

(***************************************************************************)
(* Generic helpers                                                         *)
(***************************************************************************)
Min(a, b) == IF a < b THEN a ELSE b

Max(a, b) == IF a > b THEN a ELSE b

Abs(a) == IF a < 0 THEN -a ELSE a

\* Math.ceil(a / b) for a >= 0, b > 0
CeilDiv(a, b) == (a + b - 1) \div b

Range(s) == {s[i] : i \in 1..Len(s)}

RECURSIVE Flatten(_)
Flatten(ss) == IF ss = <<>> THEN <<>> ELSE Head(ss) \o Flatten(Tail(ss))

\* all sequences over S of length 1..n
RECURSIVE SeqsUpTo(_, _)
SeqsUpTo(S, n) ==
    IF n = 0 THEN {}
    ELSE LET shorter == SeqsUpTo(S, n - 1)
         IN  {<<c>> : c \in S} \cup {Append(s, c) : s \in shorter, c \in S}

(***************************************************************************)
(* Strings                                                                 *)
(***************************************************************************)
NL == "\n"

\* the characters a text node is made of: a letter and a white-space
\* character that is also the line separator
Chars == {"a", NL}

IsSpace(c) == c = NL \/ c = " "

\* String.prototype.trim
RECURSIVE TrimLeft(_)
TrimLeft(s) ==
    IF s = <<>> THEN <<>>
    ELSE IF IsSpace(Head(s)) THEN TrimLeft(Tail(s)) ELSE s

RECURSIVE TrimRight(_)
TrimRight(s) ==
    IF s = <<>> THEN <<>>
    ELSE IF IsSpace(s[Len(s)]) THEN TrimRight(SubSeq(s, 1, Len(s) - 1)) ELSE s

Trim(s) == TrimRight(TrimLeft(s))

\* String.prototype.split("\n"): the segments between the separators
RECURSIVE SplitLines(_, _)
SplitLines(s, cur) ==
    IF s = <<>> THEN <<cur>>
    ELSE IF Head(s) = NL THEN <<cur>> \o SplitLines(Tail(s), <<>>)
    ELSE SplitLines(Tail(s), Append(cur, Head(s)))

Split(s) == SplitLines(s, <<>>)

\* the lines of an output string, ignoring the trailing empty segment
Lines(s) ==
    LET segs == Split(s)
    IN  IF segs[Len(segs)] = <<>> THEN SubSeq(segs, 1, Len(segs) - 1) ELSE segs

\* tagName.toLowerCase()
ToLowerCase(tag) ==
    CASE tag = "BUTTON" -> "button"
      [] tag = "P" -> "p"
      [] tag = "BODY" -> "body"
      [] tag = "DIV" -> "div"
      [] tag = "SPAN" -> "span"
      [] tag = "A" -> "a"
      [] tag = "IMG" -> "img"
      [] tag = "INPUT" -> "input"
      [] tag = "TEXTAREA" -> "textarea"
      [] tag = "SELECT" -> "select"
      [] tag = "OPTION" -> "option"
      [] tag = "SVG" -> "svg"
      [] OTHER -> tag

(***************************************************************************)
(* The document tree.  Node 0 is document.body; the other nodes are, in    *)
(* document (pre-)order:                                                   *)
(*     body                                                                *)
(*      |- 1 element                                                       *)
(*      |    |- 2 element                                                  *)
(*      |    |    |- 3 text                                                *)
(*      |    |- 6 element                                                  *)
(*      |         |- 7 text                                                *)
(*      |- 4 element                                                       *)
(*           |- 5 text                                                     *)
(* A node may be absent (then its descendants are absent too).             *)
(***************************************************************************)
Body == 0

NodeIds == 1..7

\* the nodes below the body in document order
DocOrder == <<1, 2, 3, 6, 7, 4, 5>>

Parent(n) ==
    CASE n = 1 -> Body
      [] n = 2 -> 1
      [] n = 3 -> 2
      [] n = 4 -> Body
      [] n = 5 -> 4
      [] n = 6 -> 1
      [] n = 7 -> 6
      [] OTHER -> Body

Null == "<null>"       \* getAttribute of a missing attribute

VisibleStyle == [display |-> "block", visibility |-> "visible", opacity |-> "1"]

\* computed styles an element can have
Styles ==
    { VisibleStyle,
      [display |-> "none", visibility |-> "visible", opacity |-> "1"],
      [display |-> "block", visibility |-> "hidden", opacity |-> "1"],
      [display |-> "block", visibility |-> "visible", opacity |-> "0"] }

\* an element: its tag, its attributes in declaration order as <<name, value>>
\* pairs, its computed style and its rectangle in page coordinates
ElementNode(tag, attrs, style, top, height, width) ==
    [kind |-> "element", tag |-> tag, attrs |-> attrs, style |-> style,
     top |-> top, left |-> 0, height |-> height, width |-> width, data |-> <<>>]

TextNode(data) ==
    [kind |-> "text", tag |-> "#text", attrs |-> <<>>, style |-> VisibleStyle,
     top |-> 0, left |-> 0, height |-> 0, width |-> 0, data |-> data]

AbsentNode ==
    [kind |-> "absent", tag |-> "", attrs |-> <<>>, style |-> VisibleStyle,
     top |-> 0, left |-> 0, height |-> 0, width |-> 0, data |-> <<>>]

\* Element.hasAttribute
HasAttribute(node, name) == \E i \in 1..Len(node.attrs) : node.attrs[i][1] = name

\* Element.getAttribute
GetAttribute(node, name) ==
    IF HasAttribute(node, name)
    THEN node.attrs[CHOOSE i \in 1..Len(node.attrs) :
                        /\ node.attrs[i][1] = name
                        /\ \A j \in 1..(i - 1) : node.attrs[j][1] # name][2]
    ELSE Null

\* Node.childNodes, in document order: the children among DocOrder[k..]
RECURSIVE ChildrenFrom(_, _, _)
ChildrenFrom(d, n, k) ==
    IF k > Len(DocOrder) THEN <<>>
    ELSE IF Parent(DocOrder[k]) = n /\ d[DocOrder[k]].kind # "absent"
         THEN <<DocOrder[k]>> \o ChildrenFrom(d, n, k + 1)
         ELSE ChildrenFrom(d, n, k + 1)

ChildNodes(d, n) == ChildrenFrom(d, n, 1)

\* Node.textContent: the text of all descendant text nodes, in document order
RECURSIVE TextContent(_, _)
TextContent(d, n) ==
    IF d[n].kind = "text" THEN d[n].data
    ELSE LET kids == ChildNodes(d, n)
         IN  Flatten([i \in 1..Len(kids) |-> TextContent(d, kids[i])])

\* isTextNode: a text node whose trimmed content is not empty
isTextNode(d, n) == d[n].kind = "text" /\ Trim(TextContent(d, n)) # <<>>

\* Element.getBoundingClientRect, relative to the viewport
RectTop(node, sy) == node.top - sy

RectBottom(node, sy) == node.top - sy + node.height

RectLeft(node, sx) == node.left - sx

leafElementDenyList == {"SVG", "IFRAME", "SCRIPT", "STYLE", "LINK"}

interactiveElementTypes ==
    {"A", "BUTTON", "DETAILS", "EMBED", "INPUT", "LABEL", "MENU", "MENUITEM",
     "OBJECT", "SELECT", "TEXTAREA", "SUMMARY"}

interactiveRoles ==
    {"button", "menu", "menuitem", "link", "checkbox", "radio", "slider",
     "tab", "tabpanel", "textbox", "combobox", "grid", "listbox", "option",
     "progressbar", "scrollbar", "searchbox", "switch", "tree", "treeitem",
     "spinbutton", "tooltip"}

interactiveAriaRoles == {"menu", "menuitem", "button"}

isActive(node) ==
    ~ ( \/ HasAttribute(node, "disabled")
        \/ HasAttribute(node, "hidden")
        \/ GetAttribute(node, "aria-disabled") = "true" )

isInteractiveElement(node) ==
    \/ node.tag \in interactiveElementTypes
    \/ GetAttribute(node, "role") \in interactiveRoles
    \/ GetAttribute(node, "aria-role") \in interactiveAriaRoles

\* isLeafElement without the test of the empty text content
isLeafElementByChildrenOnly(d, n) ==
    IF Len(ChildNodes(d, n)) = 0 THEN d[n].tag \notin leafElementDenyList
    ELSE IF Len(ChildNodes(d, n)) = 1 /\ isTextNode(d, ChildNodes(d, n)[1]) THEN TRUE
    ELSE FALSE

\* isLeafElement without the case of the single text child
isLeafElementChildlessOnly(d, n) ==
    IF TextContent(d, n) = <<>> THEN FALSE
    ELSE IF Len(ChildNodes(d, n)) = 0 THEN d[n].tag \notin leafElementDenyList
    ELSE FALSE

isLeafElement(d, n) ==
    IF TextContent(d, n) = <<>> THEN FALSE
    ELSE IF Len(ChildNodes(d, n)) = 0 THEN d[n].tag \notin leafElementDenyList
    ELSE IF Len(ChildNodes(d, n)) = 1 /\ isTextNode(d, ChildNodes(d, n)[1]) THEN TRUE
    ELSE FALSE

(***************************************************************************)
(* Candidate discovery: the tree walker and the classification loop       *)
(***************************************************************************)
\* the filter of the tree walker: TRUE for FILTER_ACCEPT, FALSE for FILTER_REJECT
acceptNode(node) ==
    IF node.kind = "element"
    THEN ~ ( \/ HasAttribute(node, "hidden")
             \/ HasAttribute(node, "disabled")
             \/ GetAttribute(node, "aria-disabled") = "true"
             \/ node.style.display = "none"
             \/ node.style.visibility = "hidden" )
    ELSE TRUE

\* the nodes treeWalker.nextNode() returns below node n, in order: the filter
\* is applied to every node but the root of the walk (DOM standard, TreeWalker
\* nextNode), and a rejected node is skipped with its whole subtree
RECURSIVE WalkBelow(_, _)
WalkBelow(d, n) ==
    LET kids == ChildNodes(d, n)
    IN  Flatten([i \in 1..Len(kids) |->
            IF acceptNode(d[kids[i]])
            THEN <<kids[i]>> \o WalkBelow(d, kids[i])
            ELSE <<>>])

TreeWalk(d) == WalkBelow(d, Body)

\* a style test that lets transparent elements pass
StyleHidesButOpacity(style) ==
    \/ style.display = "none"
    \/ style.visibility = "hidden"

StyleHides(style) ==
    \/ style.display = "none"
    \/ style.visibility = "hidden"
    \/ style.opacity = "0"

\* a rectangle test that asks for the whole rectangle inside the window
RectVisibleInside(node, sy, ih) ==
    /\ node.width > 0
    /\ node.height > 0
    /\ RectTop(node, sy) >= 0
    /\ RectBottom(node, sy) <= ih

\* the rectangle test of the visibility check, at scroll offset sy with
\* window.innerHeight = ih
RectVisible(node, sy, ih) ==
    /\ node.width > 0
    /\ node.height > 0
    /\ RectTop(node, sy) >= - node.height
    /\ RectBottom(node, sy) <= ih + node.height

\* one iteration of the classification loop on node n; acc holds the candidate
\* list, the visibilityCache of the pass and the number of rectangle reads
ClassifyNode(d, n, sy, ih, acc) ==
    IF d[n].kind = "element"
    THEN IF StyleHides(d[n].style) THEN acc
         ELSE LET known == n \in DOMAIN acc.vis
                  visible == IF known THEN acc.vis[n] ELSE RectVisible(d[n], sy, ih)
                  shouldAdd == /\ visible
                               /\ isActive(d[n])
                               /\ (isInteractiveElement(d[n]) \/ isLeafElement(d, n))
              IN  [cands |-> IF shouldAdd THEN Append(acc.cands, n) ELSE acc.cands,
                   vis |-> IF known THEN acc.vis ELSE (n :> visible) @@ acc.vis,
                   reads |-> IF known THEN acc.reads ELSE Append(acc.reads, n)]
    ELSE IF Trim(d[n].data) = <<>> THEN acc
    ELSE LET par == Parent(n)
         IN  IF par \in DOMAIN acc.vis
             THEN [acc EXCEPT !.cands = IF acc.vis[par] THEN Append(@, n) ELSE @]
             ELSE IF StyleHides(d[par].style) THEN acc
             ELSE LET visible == RectVisible(d[par], sy, ih)
                  IN  [cands |-> IF visible THEN Append(acc.cands, n) ELSE acc.cands,
                       vis |-> (par :> visible) @@ acc.vis,
                       reads |-> Append(acc.reads, par)]

RECURSIVE ClassifyAll(_, _, _, _, _)
ClassifyAll(d, nodes, sy, ih, acc) ==
    IF nodes = <<>> THEN acc
    ELSE ClassifyAll(d, Tail(nodes), sy, ih, ClassifyNode(d, Head(nodes), sy, ih, acc))

EmptyPass == [cands |-> <<>>, vis |-> <<>>, reads |-> <<>>]

\* a pass that goes on with the visibilityCache of the pass before
KeptWeakMap(previous) == previous

\* new WeakMap(): the visibilityCache a pass starts with, whatever the pass
\* before has left
NewWeakMap(previous) == EmptyPass.vis

\* the tree walk of one pass that starts with the given visibilityCache
WalkPass(d, sy, ih, cache) ==
    ClassifyAll(d, TreeWalk(d), sy, ih, [EmptyPass EXCEPT !.vis = cache])

\* candidateElements of one pass
FindCandidates(d, sy, ih) == WalkPass(d, sy, ih, EmptyPass.vis).cands

(***************************************************************************)
(* Locator generation (xpathUtils.generateXPathsForElement)               *)
(***************************************************************************)
\* position of node n among the child nodes of its parent
ChildPosition(d, n) ==
    LET kids == ChildNodes(d, Parent(n))
    IN  CHOOSE i \in 1..Len(kids) : kids[i] = n

\* the positional path of node n from the body
RECURSIVE PathOf(_, _)
PathOf(d, n) ==
    IF n = Body THEN <<>> ELSE Append(PathOf(d, Parent(n)), ChildPosition(d, n))

\* the locator set generated for node n: one structural path
generateXPaths(d, n) == << PathOf(d, n) >>

(***************************************************************************)
(* Output assembly                                                         *)
(***************************************************************************)
essentialAttributes ==
    <<"id", "class", "href", "src", "aria-label", "aria-name", "aria-role",
      "aria-description", "aria-expanded", "aria-haspopup", "type", "value">>

\* attribute names of the model that start with "data-"
DataAttributeNames == {"data-x"}

FormatAttr(name, value) == <<name, "=", "\"", value, "\"">>

\* Array.prototype.join(" ") on a list of strings
RECURSIVE JoinSpace(_)
JoinSpace(parts) ==
    IF parts = <<>> THEN <<>>
    ELSE IF Len(parts) = 1 THEN parts[1]
    ELSE parts[1] \o <<" ">> \o JoinSpace(Tail(parts))

collectEssentialAttributes(node) ==
    LET essential ==
            [i \in 1..Len(essentialAttributes) |->
                LET value == GetAttribute(node, essentialAttributes[i])
                IN  IF value # Null /\ value # ""
                    THEN <<FormatAttr(essentialAttributes[i], value)>>
                    ELSE <<>>]
        data ==
            [i \in 1..Len(node.attrs) |->
                IF node.attrs[i][1] \in DataAttributeNames
                THEN <<FormatAttr(node.attrs[i][1], node.attrs[i][2])>>
                ELSE <<>>]
    IN  JoinSpace(Flatten(essential) \o Flatten(data))

\* outputParts[index] for candidate n
OutputPart(d, n, actualIndex) ==
    IF d[n].kind = "text"
    THEN LET textContent == Trim(d[n].data)
         IN  IF textContent # <<>>
             THEN <<ToString(actualIndex), ":">> \o textContent \o <<NL>>
             ELSE <<>>
    ELSE LET tagName == ToLowerCase(d[n].tag)
             attributes == collectEssentialAttributes(d[n])
             textContent == Trim(TextContent(d, n))
         IN  <<ToString(actualIndex), ":", "<", tagName>>
             \o (IF attributes # <<>> THEN <<" ">> \o attributes ELSE <<>>)
             \o <<">">> \o textContent \o <<"<", "/", tagName, ">", NL>>

\* the result of processElements once every locator is there: xp[i] is the
\* locator set of the i-th candidate
AssembleOutput(d, cands, xp, indexOffset) ==
    [outputString |->
        Flatten([i \in 1..Len(cands) |-> OutputPart(d, cands[i], i - 1 + indexOffset)]),
     selectorMap |->
        [k \in {i - 1 + indexOffset : i \in 1..Len(cands)} |-> xp[k - indexOffset + 1]]]

(***************************************************************************)
(* Chunk scheduler                                                         *)
(***************************************************************************)
\* utils.calculateViewportHeight
calculateViewportHeight(ih) == ih

\* Array.from({ length: chunks }, (_, i) => i)
chunksArrayOf(chunks) == [i \in 1..chunks |-> i - 1]

\* a filter that keeps the seen chunks
FilterNothing(arr, seen) == arr

\* chunksArray.filter((chunk) => !chunksSeen.includes(chunk))
RECURSIVE FilterUnseen(_, _)
FilterUnseen(arr, seen) ==
    IF arr = <<>> THEN <<>>
    ELSE IF Head(arr) \in Range(seen) THEN FilterUnseen(Tail(arr), seen)
    ELSE <<Head(arr)>> \o FilterUnseen(Tail(arr), seen)

\* the callback with <= for <: of two chunks at the same distance the later wins
CloserChunkOnTie(closest, current, vh, sy) ==
    IF Abs(sy - vh * current) <= Abs(sy - vh * closest) THEN current ELSE closest

\* the callback of the reduce in pickChunk
CloserChunk(closest, current, vh, sy) ==
    IF Abs(sy - vh * current) < Abs(sy - vh * closest) THEN current ELSE closest

\* chunksRemaining.reduce(callback, init)
RECURSIVE ReduceClosest(_, _, _, _)
ReduceClosest(arr, closest, vh, sy) ==
    IF arr = <<>> THEN closest
    ELSE ReduceClosest(Tail(arr), CloserChunk(closest, Head(arr), vh, sy), vh, sy)

Undefined == -1        \* chunksRemaining[0] of an empty array

\* pickChunk without the check for an undefined chunk
pickChunkNoThrow(seen, dh, ih, sy) ==
    LET viewportHeight == calculateViewportHeight(ih)
        chunks == CeilDiv(dh, viewportHeight)
        chunksArray == chunksArrayOf(chunks)
        chunksRemaining == FilterUnseen(chunksArray, seen)
        first == IF chunksRemaining = <<>> THEN Undefined ELSE chunksRemaining[1]
        closestChunk == ReduceClosest(chunksRemaining, first, viewportHeight, sy)
    IN  [ok |-> TRUE, chunk |-> closestChunk, chunksArray |-> chunksArray]

\* pickChunk that returns chunksRemaining for chunksArray
pickChunkRemaining(seen, dh, ih, sy) ==
    LET viewportHeight == calculateViewportHeight(ih)
        chunks == CeilDiv(dh, viewportHeight)
        chunksArray == chunksArrayOf(chunks)
        chunksRemaining == FilterUnseen(chunksArray, seen)
        first == IF chunksRemaining = <<>> THEN Undefined ELSE chunksRemaining[1]
        closestChunk == ReduceClosest(chunksRemaining, first, viewportHeight, sy)
    IN  [ok |-> closestChunk # Undefined, chunk |-> closestChunk,
         chunksArray |-> chunksRemaining]

\* pickChunk: ok = FALSE stands for the thrown "No chunks remaining" error
pickChunk(seen, dh, ih, sy) ==
    LET viewportHeight == calculateViewportHeight(ih)
        chunks == CeilDiv(dh, viewportHeight)
        chunksArray == chunksArrayOf(chunks)
        chunksRemaining == FilterUnseen(chunksArray, seen)
        first == IF chunksRemaining = <<>> THEN Undefined ELSE chunksRemaining[1]
        closestChunk == ReduceClosest(chunksRemaining, first, viewportHeight, sy)
    IN  [ok |-> closestChunk # Undefined, chunk |-> closestChunk,
         chunksArray |-> chunksArray]

\* offsetTop without the limit of maxScrollTop
OffsetTopUnclamped(chunk, dh, ih) == calculateViewportHeight(ih) * chunk

\* offsetTop of processElements
OffsetTop(chunk, dh, ih) ==
    LET viewportHeight == calculateViewportHeight(ih)
        maxScrollTop == dh - viewportHeight
    IN  Min(viewportHeight * chunk, maxScrollTop)

\* window.scrollTo({ top, behavior: "instant" }): the browser keeps the offset
\* inside the scrollable range
ScrollPositionAfter(top, dh, ih) == Max(0, Min(top, dh - ih))

\* the offsets window.scrollY can take
ScrollRange(dh, ih) == 0..Max(0, dh - ih)

\* clearTimeout without a new timer: a timer that is pending is kept
handleScrollEndKeepsTimer(timer) == IF timer < 0 THEN QuietTicks ELSE timer

\* handleScrollEnd: the pending timer is cleared and a new one is set that is
\* due one quiet window later; the value is the number of ticks until then
handleScrollEnd(timer) == QuietTicks

NoTimer == -1          \* scrollEndTimer when no timer is pending

\* no second call is in flight
NoSecond == [pc |-> "none", chunk |-> 0, timer |-> NoTimer, at |-> -1, cands |-> <<>>]

(***************************************************************************)
(* DOM snapshot: storeDOM and restoreDOM.  An HTML string is the sequence  *)
(* of the markup of its nodes; the empty string is the empty sequence.     *)
(***************************************************************************)
NoSnapshot == <<>>

NoSnapshotError == "No DOM state was provided."

\* document.body.cloneNode(true).outerHTML: the markup of the body element
\* followed by that of the nodes below it
storeDOM(d) == <<d[Body]>> \o [n \in NodeIds |-> d[n]]

\* document.body.innerHTML = storedDOM: the body element stays, its children
\* are replaced by the nodes parsed from the string; parsed as the content of
\* a body, the body tag of the string itself is dropped
BodyWithInnerHTML(d, storedDOM) ==
    [n \in {Body} \cup NodeIds |->
        IF n = Body THEN d[Body]
        ELSE IF n + 1 <= Len(storedDOM) THEN storedDOM[n + 1] ELSE AbsentNode]

\* restoreDOM without the test of its argument
restoreDOMUnchecked(d, storedDOM) ==
    [doc |-> BodyWithInnerHTML(d, storedDOM), errors |-> <<>>,
     replaced |-> TRUE]

\* restoreDOM(storedDOM) on document d: the document after the call, what it
\* logged with console.error, and whether the body content was replaced
restoreDOM(d, storedDOM) ==
    IF storedDOM # NoSnapshot
    THEN [doc |-> BodyWithInnerHTML(d, storedDOM), errors |-> <<>>,
          replaced |-> TRUE]
    ELSE [doc |-> d, errors |-> <<NoSnapshotError>>, replaced |-> FALSE]

(***************************************************************************)
(* Bounding boxes: getElementBoundingBoxes                                 *)
(***************************************************************************)
NoNode == -1           \* singleNodeValue when the locator matches no node

\* document.evaluate(xpath, ...).singleNodeValue for a positional path below
\* node n
RECURSIVE ResolveFrom(_, _, _)
ResolveFrom(d, n, path) ==
    IF path = <<>> THEN n
    ELSE LET kids == ChildNodes(d, n)
         IN  IF Head(path) \in 1..Len(kids)
             THEN ResolveFrom(d, kids[Head(path)], Tail(path))
             ELSE NoNode

\* a resolution that falls back to the body when the locator matches no node
ResolveLocatorOrBody(d, xpath) ==
    IF ResolveFrom(d, Body, xpath) = NoNode THEN Body ELSE ResolveFrom(d, Body, xpath)

ResolveLocator(d, xpath) == ResolveFrom(d, Body, xpath)

\* the descendants of node n in document order
RECURSIVE Descendants(_, _)
Descendants(d, n) ==
    LET kids == ChildNodes(d, n)
    IN  Flatten([i \in 1..Len(kids) |-> <<kids[i]>> \o Descendants(d, kids[i])])

\* the first node of a node list that is in the set matching, as querySelector
\* returns it
FirstMatch(nodes, matching) ==
    IF \E i \in 1..Len(nodes) : nodes[i] \in matching
    THEN nodes[CHOOSE i \in 1..Len(nodes) :
                   /\ nodes[i] \in matching
                   /\ \A j \in 1..(i - 1) : nodes[j] \notin matching]
    ELSE NoNode

\* the option elements of document d
Options(d) == {n \in NodeIds : d[n].kind = "element" /\ d[n].tag = "OPTION"}

\* the option picked without the preference for a selected one
dropDownElemFirstOption(d, element) ==
    FirstMatch(Descendants(d, element), Options(d))

\* element.querySelector("option[selected]"), else element.querySelector("option")
dropDownElem(d, element) ==
    LET selected == FirstMatch(Descendants(d, element),
                               {n \in Options(d) : HasAttribute(d[n], "selected")})
    IN  IF selected # NoNode THEN selected
        ELSE FirstMatch(Descendants(d, element), Options(d))

isValidText(text) == text # <<>> /\ Len(Trim(text)) > 0

\* the text of an attribute value, "" when the attribute is missing
AttrText(value) == IF value = Null \/ value = "" THEN <<>> ELSE <<value>>

placeholderText(node) ==
    IF /\ ToLowerCase(node.tag) \in {"input", "textarea"}
       /\ AttrText(GetAttribute(node, "placeholder")) # <<>>
    THEN AttrText(GetAttribute(node, "placeholder"))
    ELSE IF ToLowerCase(node.tag) = "a" THEN <<>>
    ELSE IF ToLowerCase(node.tag) = "img" THEN AttrText(GetAttribute(node, "alt"))
    ELSE <<>>

\* rect.height and rect.height * 0.75, in quarters of a pixel
FullHeight(height) == 4 * height

CompressedHeight(height) == 3 * height

WordClass == "stagehand-highlighted-word"

\* element.querySelectorAll(".stagehand-highlighted-word")
Words(d, element) ==
    LET below == Descendants(d, element)
    IN  Flatten([i \in 1..Len(below) |->
            IF /\ d[below[i]].kind = "element"
               /\ GetAttribute(d[below[i]], "class") = WordClass
            THEN <<below[i]>> ELSE <<>>])

\* the box of a token marker
WordBox(d, word, sx, sy) ==
    [text |-> TextContent(d, word),
     top |-> RectTop(d[word], sy) + sy,
     left |-> RectLeft(d[word], sx) + sx,
     width |-> d[word].width,
     height |-> CompressedHeight(d[word].height)]

KeepsBox(box) ==
    /\ box.width > 0
    /\ box.height > 0
    /\ box.top >= 0
    /\ box.left >= 0
    /\ isValidText(box.text)

TypeError == "element.querySelector is not a function"

\* getElementBoundingBoxes(xpath) on document d scrolled to (sx, sy): the
\* returned boxes, or the error thrown
getElementBoundingBoxes(d, xpath, sx, sy) ==
    LET element == ResolveLocator(d, xpath)
    IN  IF element = NoNode THEN [error |-> "", boxes |-> <<>>]
        ELSE IF d[element].kind # "element"
        THEN [error |-> TypeError, boxes |-> <<>>]
        ELSE LET option == dropDownElem(d, element)
                 words == Words(d, element)
                 wordBoxes == [i \in 1..Len(words) |-> WordBox(d, words[i], sx, sy)]
                 boundingBoxes ==
                     Flatten([i \in 1..Len(wordBoxes) |->
                         IF KeepsBox(wordBoxes[i]) THEN <<wordBoxes[i]>> ELSE <<>>])
             IN  IF option # NoNode
                 THEN IF isValidText(TextContent(d, option))
                      THEN [error |-> "",
                            boxes |->
                              << [text |-> Trim(TextContent(d, option)),
                                  top |-> RectTop(d[element], sy) + sy,
                                  left |-> RectLeft(d[element], sx) + sx,
                                  width |-> d[element].width,
                                  height |-> FullHeight(d[element].height)] >>]
                      ELSE [error |-> "", boxes |-> <<>>]
                 ELSE IF boundingBoxes = <<>>
                 THEN [error |-> "",
                       boxes |->
                         << [text |-> placeholderText(d[element]),
                             top |-> RectTop(d[element], sy) + sy,
                             left |-> RectLeft(d[element], sx) + sx,
                             width |-> d[element].width,
                             height |-> CompressedHeight(d[element].height)] >>]
                 ELSE [error |-> "", boxes |-> boundingBoxes]

(***************************************************************************)
(* State                                                                   *)
(***************************************************************************)
VARIABLES
    doc,                \* the document tree: node id -> node (0 is the body)
    generation,         \* how often the body content was replaced: the nodes
                        \* below the body are the pairs <<generation, id>>
    scrollHeight,       \* document.documentElement.scrollHeight
    innerHeight,        \* window.innerHeight
    scrollY,            \* window.scrollY
    scrollX,            \* window.scrollX
    xpathCache,         \* the module-level xpathCache: node -> locator set
    chunksSeen,         \* the caller's roster of seen chunks
    op,                 \* the exported function that is running
    arg,                \* the argument of a running scrollToHeight, restoreDOM
                        \* or getElementBoundingBoxes call, in a sequence
    pc,                 \* where that call stands
    chunk,              \* chunk of the processElements pass in progress
    scrollToChunk,      \* scrollToChunk of that pass
    indexOffset,        \* indexOffset of that pass (index in processAllOfDom)
    totalChunks,        \* totalChunks of processAllOfDom
    chunksArray,        \* chunksArray picked by processDom
    candidateElements,  \* candidateElements of the pass in progress
    results,            \* results of processAllOfDom
    ret,                \* what the call returned or threw
    listening,          \* handleScrollEnd is registered as a scroll listener
    scrollEndTimer,     \* ticks until scrollEndTimer is due, or NoTimer
    consoleErrors,      \* what the running call logged with console.error
    currentScrollPosition, \* window.scrollY as pickChunk read it
    passes,             \* <<chunk, indexOffset>> of the passes of the running call
    scrollLog,          \* scroll offsets requested by the running call
    settles,            \* settle waits of the running call that have resolved
    quiet,              \* ticks since the last scroll event the listener got,
                        \* or since the scroll request when it got none
    steady,             \* nobody else has scrolled during the running call
    walks,              \* tree walks started by the running call
    visibilityCache,    \* visibilityCache of the last tree walk of the running
                        \* call: element -> verdict of the rectangle test
    rectReads,          \* the elements whose rectangle that walk read, in order
    generatorCalls,     \* locator generations started by the running call
    failures,           \* locator generations that failed in the running call
    completion,         \* the order in which the locator promises of the pass
                        \* joined last settled: positions in candidateElements
    prev,               \* the preceding call, when it was a successful processDom
    followed,           \* the caller has added every returned chunk to its roster
    llm,                \* the OpenRouterClient and its running createChatCompletion
    second              \* an extraction call started while another is in flight

vars ==
    <<doc, generation, scrollHeight, innerHeight, scrollY, scrollX, xpathCache,
      chunksSeen, op, arg, pc, chunk, scrollToChunk, indexOffset, totalChunks,
      chunksArray, candidateElements, results, ret, listening, scrollEndTimer,
      consoleErrors, currentScrollPosition, passes, scrollLog, settles, quiet,
      steady, walks, visibilityCache, rectReads, generatorCalls, failures, completion, prev, followed, llm, second>>

\* what no call of the pipeline changes
page == <<doc, generation, scrollHeight, innerHeight>>

\* the scroll-settle wait
wait == <<listening, scrollEndTimer, quiet, second>>

\* the locals of a pass
pass == <<chunk, scrollToChunk, indexOffset, candidateElements, passes>>

EmptyMap == [k \in {} |-> <<>>]

NoError == ""

ExhaustedError == "No chunks remaining to check"

LocatorError == "locator generation failed"

NoRet ==
    [ok |-> FALSE, error |-> NoError, outputString |-> <<>>,
     selectorMap |-> EmptyMap, chunk |-> Undefined, chunks |-> <<>>,
     boxes |-> <<>>, html |-> NoSnapshot]

Thrown(error) == [NoRet EXCEPT !.error = error]

\* a call that returns undefined
ReturnedNothing == [NoRet EXCEPT !.ok = TRUE]

NoPrev == [valid |-> FALSE, seen |-> <<>>, ret |-> NoRet]

(***************************************************************************)
(* Documents                                                               *)
(***************************************************************************)
Tags == {"P", "BUTTON"}

\* attribute lists that switch an element off, or not
ActivityAttrs ==
    { <<>>, << <<"hidden", "">> >>, << <<"disabled", "">> >>,
      << <<"aria-disabled", "true">> >>, << <<"aria-disabled", "false">> >> }

\* attribute lists that show up in the output
OutputAttrs == { <<>>, << <<"data-x", "b">>, <<"lang", "en">>, <<"id", "a">> >> }

Texts == SeqsUpTo(Chars, MaxTextLen)

BodyNode(attrs, dh) == ElementNode("BODY", attrs, VisibleStyle, 0, dh, 1)

\* a document without the nodes 6 and 7
MakeDoc(body, n1, n2, n3, n4, n5) ==
    [n \in {Body} \cup NodeIds |->
        CASE n = 0 -> body [] n = 1 -> n1 [] n = 2 -> n2
          [] n = 3 -> n3 [] n = 4 -> n4 [] n = 5 -> n5 [] OTHER -> AbsentNode]

\* documents that vary in the text and the attributes of the inner element
TextDocuments(dh) ==
    { MakeDoc(BodyNode(<<>>, dh),
              ElementNode("P", <<>>, VisibleStyle, 0, 1, 1),
              ElementNode(t2, a2, VisibleStyle, 0, 1, 1), TextNode(x),
              ElementNode("P", <<>>, VisibleStyle, top4, 1, 1), TextNode(<<"a">>)) :
        t2 \in {"P"}, a2 \in OutputAttrs, x \in Texts, top4 \in {3} }

\* documents that vary in which elements are switched off, in tags and in shape
SwitchedDocuments(dh) ==
    { MakeDoc(BodyNode(ba, dh),
              ElementNode(t1, a1, VisibleStyle, 0, 1, 1), n23[1], n23[2],
              ElementNode(t4, <<>>, VisibleStyle, top4, 1, 1), TextNode(<<"a">>)) :
        ba \in {<<>>, << <<"aria-disabled", "true">> >>},
        t1 \in {"BUTTON"}, a1 \in ActivityAttrs,
        n23 \in {<<AbsentNode, AbsentNode>>}
                \cup { <<ElementNode(t2, <<>>, VisibleStyle, 0, 1, 1), TextNode(<<"a">>)>> :
                         t2 \in Tags },
        t4 \in {"P"}, top4 \in {1, 3} }

\* the first element lies in the first viewport, the last one in the first
\* or in the second
Documents(dh) == TextDocuments(dh) \cup SwitchedDocuments(dh)

\* one plain document: a paragraph with a button in it, and a paragraph
PlainDocument(dh) ==
    MakeDoc(BodyNode(<<>>, dh),
            ElementNode("P", <<>>, VisibleStyle, 0, 1, 1),
            ElementNode("BUTTON", <<>>, VisibleStyle, 0, 1, 1), TextNode(<<"a">>),
            ElementNode("P", <<>>, VisibleStyle, Max(0, dh - 1), 1, 1), TextNode(<<"a">>))

\* the document of the snapshot pair: one that differs from the plain one in
\* shape, in text and in the attributes of the body
SnapshotDocuments(dh) ==
    { MakeDoc(BodyNode(ba, dh),
              ElementNode("BUTTON", <<>>, VisibleStyle, 0, 1, 1),
              AbsentNode, AbsentNode,
              ElementNode("P", <<>>, VisibleStyle, Max(0, dh - 1), 1, 1),
              TextNode(x)) :
        ba \in {<< <<"aria-disabled", "false">> >>},
        x \in {<<"a", "a">>} }

\* a document with the nodes 6 and 7
MakeFullDoc(body, n1, n2, n3, n6, n7, n4, n5) ==
    [n \in {Body} \cup NodeIds |->
        CASE n = 0 -> body [] n = 1 -> n1 [] n = 2 -> n2 [] n = 3 -> n3
          [] n = 4 -> n4 [] n = 5 -> n5 [] n = 6 -> n6 [] OTHER -> n7]

\* an element that lies one pixel off the left edge of the page
IndentedElement(tag, attrs, top) ==
    [ElementNode(tag, attrs, VisibleStyle, top, 1, 1) EXCEPT !.left = 1]

SelectedAttrs == {<<>>, << <<"selected", "">> >>}

\* a select with the one option of the scenario, followed by a paragraph
BlueSelect(dh) ==
    MakeDoc(BodyNode(<<>>, dh),
            IndentedElement("SELECT", <<>>, 1),
            IndentedElement("OPTION", << <<"selected", "">> >>, 1),
            TextNode(<<"B", "l", "u", "e">>),
            ElementNode("P", <<>>, VisibleStyle, Max(0, dh - 1), 1, 1),
            TextNode(<<"a">>))

\* documents for the bounding boxes: a select with two options, each selected
\* or not and with a text that is blank or not, followed by a paragraph; a
\* paragraph of two token markers, the first with or without a width, the
\* second with or without a text, followed by a field, an image or an anchor;
\* the select of the scenario; the plain document
BoxDocuments(dh) ==
    { MakeFullDoc(BodyNode(<<>>, dh),
                  IndentedElement("SELECT", <<>>, 1),
                  IndentedElement("OPTION", s2, 1), TextNode(x3),
                  IndentedElement("OPTION", s6, 1), TextNode(x7),
                  ElementNode("P", <<>>, VisibleStyle, Max(0, dh - 1), 1, 1),
                  TextNode(<<"a">>)) :
        s2 \in SelectedAttrs, s6 \in SelectedAttrs,
        x3 \in {<<"a">>, <<NL, "a">>, <<NL>>}, x7 \in {<<"a", "a">>, <<NL>>} }
    \cup
    { MakeFullDoc(BodyNode(<<>>, dh),
                  IndentedElement("P", <<>>, 1),
                  [IndentedElement("SPAN", << <<"class", WordClass>> >>, 1)
                      EXCEPT !.width = w2],
                  TextNode(<<"a">>),
                  IndentedElement("SPAN", << <<"class", WordClass>> >>, 1),
                  TextNode(x7),
                  ElementNode(e4[1], e4[2], VisibleStyle, Max(0, dh - 1), 1, 1),
                  AbsentNode) :
        w2 \in {0, 1}, x7 \in {<<"a", "a">>, <<NL>>},
        e4 \in { <<"INPUT", << <<"placeholder", "p">> >> >>,
                 <<"TEXTAREA", <<>> >>,
                 <<"IMG", << <<"alt", "i">> >> >>,
                 <<"A", << <<"alt", "i">> >> >> } }
    \cup {BlueSelect(dh), PlainDocument(dh)}

Hello == <<"H", "e", "l", "l", "o">>

ButtonRole == << <<"role", "button">> >>

\* what an element can hold: nothing, one text node (with text, blank or
\* empty), one element with a text, a text and an element, two elements
LeafShapes ==
    { <<AbsentNode, AbsentNode, AbsentNode, AbsentNode>>,
      <<TextNode(<<"a">>), AbsentNode, AbsentNode, AbsentNode>>,
      <<TextNode(<<NL>>), AbsentNode, AbsentNode, AbsentNode>>,
      <<TextNode(<<>>), AbsentNode, AbsentNode, AbsentNode>>,
      <<ElementNode("SPAN", <<>>, VisibleStyle, 0, 1, 1), TextNode(<<"a">>),
        AbsentNode, AbsentNode>>,
      <<TextNode(<<"a">>), AbsentNode,
        ElementNode("SPAN", <<>>, VisibleStyle, 0, 1, 1), TextNode(<<"a">>)>>,
      <<ElementNode("SPAN", <<>>, VisibleStyle, 0, 1, 1), TextNode(<<"a">>),
        ElementNode("SPAN", <<>>, VisibleStyle, 0, 1, 1), TextNode(<<"a", "a">>)>> }

\* documents that vary in what the first element holds, in its tag and in its
\* role, followed by <span>Hello</span>
ShapeDocuments(dh) ==
    { MakeFullDoc(BodyNode(<<>>, dh),
                  ElementNode(t1, a1, VisibleStyle, 0, 1, 1),
                  shape[1], shape[2], shape[3], shape[4],
                  ElementNode("SPAN", <<>>, VisibleStyle, 1, 1, 1), TextNode(Hello)) :
        t1 \in {"DIV", "SPAN", "SVG"}, a1 \in {<<>>, ButtonRole},
        shape \in LeafShapes }

\* documents that vary in the style and in the rectangle of the last element
\* and in its text, after <span>Hello</span>
LayoutDocuments(dh) ==
    { MakeDoc(BodyNode(<<>>, dh),
              ElementNode("SPAN", <<>>, VisibleStyle, 0, 1, 1),
              TextNode(Hello), AbsentNode,
              ElementNode(t4, <<>>, style4, top4, size4[1], size4[2]),
              TextNode(x5)) :
        t4 \in {"DIV", "BUTTON"}, style4 \in Styles, top4 \in {0, 2, 3},
        size4 \in {<<1, 1>>, <<0, 1>>, <<1, 0>>}, x5 \in {<<"a">>} }
    \cup
    { MakeDoc(BodyNode(<<>>, dh),
              ElementNode("SPAN", <<>>, VisibleStyle, 0, 1, 1),
              TextNode(Hello), AbsentNode,
              ElementNode("DIV", <<>>, style4, 0, 1, 1),
              TextNode(<<NL>>)) : style4 \in Styles }

PassDocuments(dh) == ShapeDocuments(dh) \cup LayoutDocuments(dh)

\* documents for the coverage of the page: a div, switched off or not, one or
\* two pixels high anywhere on the page, that holds a button of its size, and
\* a paragraph at the foot of the page
CoverDocuments(dh) ==
    { MakeDoc(BodyNode(<<>>, dh),
              ElementNode("DIV", a1, VisibleStyle, top1, h1, 1),
              ElementNode("BUTTON", <<>>, VisibleStyle, top1, h1, 1),
              TextNode(<<"a">>),
              ElementNode("P", <<>>, VisibleStyle, dh - 1, 1, 1),
              TextNode(<<"a">>)) :
        a1 \in {<<>>, << <<"aria-disabled", "true">> >>},
        h1 \in {1, 2}, top1 \in 0..(dh - 1) }

(***************************************************************************)
(* The model client (OpenRouterClient)                                     *)
(***************************************************************************)
\* no response: undefined
NoAnswer == [kind |-> "none", name |-> "", arguments |-> ""]

\* what model.doGenerate resolves to: a text, or a first tool call with its
\* name and its arguments, a string
Answers ==
    {[kind |-> "text", name |-> "", arguments |-> ""]}
    \cup {[kind |-> "tool", name |-> n, arguments |-> a] :
             n \in {"extract_data", "print_extracted_data"}, a \in {"{}", "{"}}

\* the error a rejected request throws
RequestError == [kind |-> "error", name |-> "request", arguments |-> ""]

\* JSON.parse: the value, or the SyntaxError it throws
JSONParse(text) ==
    IF text = "{}"
    THEN [ok |-> TRUE, value |-> [kind |-> "parsed", name |-> "Object", arguments |-> ""]]
    ELSE [ok |-> FALSE, value |-> [kind |-> "error", name |-> "SyntaxError", arguments |-> ""]]

\* before the client is constructed
NoClient ==
    [pc |-> "none", enableCaching |-> FALSE, cache |-> NoAnswer, given |-> 0,
     retries |-> 0, calls |-> 0, attempts |-> <<>>, out |-> NoAnswer]

\* createChatCompletion up to the request, entered with the given retry
\* count: a cached response is returned at once, else the request is made
createChatCompletion(client, retries) ==
    IF client.enableCaching /\ client.cache # NoAnswer
    THEN [client EXCEPT !.pc = "returned", !.retries = retries, !.out = client.cache]
    ELSE [client EXCEPT !.pc = "generating", !.retries = retries]

\* the catch blocks: a new call with one retry less while retries > 0, else
\* the error is thrown
RetryOrThrow(client, error) ==
    IF client.retries > 0
    THEN createChatCompletion(client, client.retries - 1)
    ELSE [client EXCEPT !.pc = "thrown", !.out = error]

\* this.cache.set(cacheOptions, response) when caching is enabled, and return
CacheAndReturn(client, response) ==
    [client EXCEPT !.pc = "returned", !.out = response,
                   !.cache = IF client.enableCaching THEN response ELSE @]

\* what follows the response of the model
HandleResponse(client, answer) ==
    IF answer.kind = "tool" /\ answer.name = "extract_data"
    THEN LET parsed == JSONParse(answer.arguments)
         IN  IF parsed.ok THEN CacheAndReturn(client, parsed.value)
             ELSE RetryOrThrow(client, parsed.value)
    ELSE CacheAndReturn(client, answer)

InitRest ==
    /\ generation = 0
    /\ xpathCache = EmptyMap
    /\ chunksSeen = <<>>
    /\ op = "none"
    /\ arg = <<>>
    /\ pc = "idle"
    /\ chunk = 0
    /\ scrollToChunk = FALSE
    /\ indexOffset = 0
    /\ totalChunks = 0
    /\ chunksArray = <<>>
    /\ candidateElements = <<>>
    /\ results = <<>>
    /\ ret = NoRet
    /\ listening = FALSE
    /\ scrollEndTimer = NoTimer
    /\ consoleErrors = <<>>
    /\ currentScrollPosition = 0
    /\ passes = <<>>
    /\ scrollLog = <<>>
    /\ settles = 0
    /\ quiet = 0
    /\ steady = TRUE
    /\ walks = 0
    /\ visibilityCache = <<>>
    /\ rectReads = <<>>
    /\ generatorCalls = 0
    /\ failures = 0
    /\ completion = <<>>
    /\ prev = NoPrev
    /\ followed = TRUE
    /\ llm = NoClient
    /\ second = NoSecond

\* a freshly loaded page of two viewports, any document
Init ==
    /\ innerHeight = 2
    /\ scrollHeight = 4
    /\ scrollY = 0
    /\ scrollX = 0
    /\ doc \in Documents(scrollHeight)
    /\ InitRest

\* a freshly loaded plain page of any height, in any viewport, scrolled anywhere
InitSched ==
    /\ innerHeight \in 1..MaxViewport
    /\ scrollHeight \in 0..MaxDocHeight
    /\ scrollY \in ScrollRange(scrollHeight, innerHeight)
    /\ scrollX = 0
    /\ doc = PlainDocument(scrollHeight)
    /\ InitRest

\* a freshly loaded page of one viewport on which snapshots are taken and
\* put back
InitSnapshot ==
    /\ innerHeight = 2
    /\ scrollHeight = 2
    /\ scrollY = 0
    /\ scrollX = 0
    /\ doc \in SnapshotDocuments(scrollHeight)
    /\ InitRest

\* a freshly loaded plain page of any height in the largest viewport, on which
\* the user scrolls too
InitScroll ==
    /\ innerHeight = MaxViewport
    /\ scrollHeight \in 0..MaxDocHeight
    /\ scrollY = 0
    /\ scrollX = 0
    /\ doc = PlainDocument(scrollHeight)
    /\ InitRest

\* a page of two viewports with a select, scrolled sideways and down or not
InitBoxes ==
    /\ innerHeight = 2
    /\ scrollHeight = 4
    /\ scrollY \in {0, 2}
    /\ scrollX \in {0, 1}
    /\ doc \in BoxDocuments(scrollHeight)
    /\ InitRest

\* a freshly loaded page of two viewports whose elements vary in shape, style
\* and rectangle
InitPass ==
    /\ innerHeight = 2
    /\ scrollHeight = 4
    /\ scrollY = 0
    /\ scrollX = 0
    /\ doc \in PassDocuments(scrollHeight)
    /\ InitRest

\* a freshly loaded page whose height is no multiple of the viewport height,
\* so that the offset of the last chunk is clamped
InitCover ==
    /\ innerHeight = 2
    /\ scrollHeight \in {3, 5}
    /\ scrollY = 0
    /\ scrollX = 0
    /\ doc \in {d \in CoverDocuments(scrollHeight) : d[1].top + d[1].height <= scrollHeight}
    /\ InitRest

\* a freshly loaded plain page of two viewports
InitPlain ==
    /\ innerHeight = 2
    /\ scrollHeight = 4
    /\ scrollY = 0
    /\ scrollX = 0
    /\ doc = PlainDocument(scrollHeight)
    /\ InitRest

(***************************************************************************)
(* Operations                                                              *)
(***************************************************************************)
Idle == pc = "idle"

\* the listener of the second call when the window has or has not moved: a
\* scroll event runs its handleScrollEnd
HeardBySecond(moved) ==
    IF second.pc = "settling" /\ moved
    THEN [second EXCEPT !.timer = handleScrollEnd(@)]
    ELSE second

\* scrollToHeight(height) up to its await: the scroll request is issued, the
\* listener is registered and handleScrollEnd sets the first timer
scrollToHeight(height, log) ==
    /\ scrollY' = ScrollPositionAfter(height, scrollHeight, innerHeight)
    /\ scrollX' = 0
    /\ scrollLog' = Append(log, height)
    /\ listening' = TRUE
    /\ scrollEndTimer' = handleScrollEnd(NoTimer)
    /\ quiet' = 0
    /\ second' = HeardBySecond(scrollY' # scrollY)

\* the callback of scrollEndTimer: the listener is removed and the promise of
\* scrollToHeight resolves
ScrollEnded ==
    /\ listening
    /\ scrollEndTimer = 0
    /\ listening' = FALSE
    /\ scrollEndTimer' = NoTimer
    /\ quiet' = 0
    /\ UNCHANGED second
    /\ settles' = settles + 1

\* the node object that is node n of the current body content
NodeKey(n) == <<generation, n>>

\* a pass that calls the generator for every candidate
ToGenerateAll(cands) == Range(cands)

\* the candidates for which xpathCache.has(element) is false: those the pass
\* calls generateXPaths for
ToGenerate(cands) == {n \in Range(cands) : NodeKey(n) \notin DOMAIN xpathCache}

\* the candidate discovery of processElements and the start of the locator
\* generation of every candidate that is not in the cache
DiscoverCandidates(sy, walked, generated) ==
    LET walk == WalkPass(doc, sy, innerHeight, NewWeakMap(visibilityCache))
        cands == walk.cands
    IN  /\ candidateElements' = cands
        /\ visibilityCache' = walk.vis
        /\ rectReads' = walk.reads
        /\ walks' = walked + 1
        /\ generatorCalls' = generated + Cardinality(ToGenerate(cands))
        /\ pc' = "locating"

\* processElements(c, scrolls, offset) up to its first await; before, log,
\* walked and generated are the passes, scroll requests, tree walks and locator
\* generations the running call has made before
processElements(c, scrolls, offset, before, log, walked, generated) ==
    /\ chunk' = c
    /\ passes' = Append(before, <<c, offset>>)
    /\ scrollToChunk' = scrolls
    /\ indexOffset' = offset
    /\ IF scrolls
       THEN /\ scrollToHeight(OffsetTop(c, scrollHeight, innerHeight), log)
            /\ pc' = "settling"
            /\ candidateElements' = <<>>
            /\ walks' = walked
            /\ UNCHANGED <<visibilityCache, rectReads>>
            /\ generatorCalls' = generated
       ELSE /\ DiscoverCandidates(scrollY, walked, generated)
            /\ scrollLog' = log
            /\ UNCHANGED <<scrollY, scrollX, wait>>

\* processDom(chunksSeen): pickChunk throws, or processElements(chunk) starts
ProcessDomCall ==
    /\ Idle
    /\ LET picked == pickChunk(chunksSeen, scrollHeight, innerHeight, scrollY)
       IN  /\ op' = "processDom"
           /\ results' = <<>>
           /\ currentScrollPosition' = scrollY
           /\ chunksArray' = picked.chunksArray
           /\ IF picked.ok
              THEN /\ processElements(picked.chunk, TRUE, 0, <<>>, <<>>, 0, 0)
                   /\ ret' = NoRet
              ELSE /\ pc' = "failed"
                   /\ ret' = Thrown(ExhaustedError)
                   /\ scrollLog' = <<>>
                   /\ walks' = 0
                   /\ UNCHANGED <<visibilityCache, rectReads>>
                   /\ generatorCalls' = 0
                   /\ UNCHANGED <<scrollY, scrollX, wait, pass>>
    /\ UNCHANGED <<page, xpathCache, chunksSeen, arg, totalChunks, consoleErrors,
                   settles, steady, failures, completion, prev, followed, llm>>

\* the scroll of processAllOfDom to the current offset instead of the top
ScrollBackToCurrent(log) ==
    /\ scrollToHeight(scrollY, log)
    /\ pc' = "restoring"

\* the scroll of processAllOfDom back to the top
ScrollBackToTop(log) ==
    /\ scrollToHeight(0, log)
    /\ pc' = "restoring"

\* processAllOfDom(): the first chunk starts, or with no chunk the final scroll
ProcessAllOfDomCall ==
    /\ Idle
    /\ LET total == CeilDiv(scrollHeight, calculateViewportHeight(innerHeight))
       IN  /\ totalChunks' = total
           /\ op' = "processAllOfDom"
           /\ results' = <<>>
           /\ ret' = NoRet
           /\ IF 0 < total
              THEN processElements(0, TRUE, 0, <<>>, <<>>, 0, 0)
              ELSE /\ ScrollBackToTop(<<>>)
                   /\ walks' = 0
                   /\ UNCHANGED <<visibilityCache, rectReads>>
                   /\ generatorCalls' = 0
                   /\ UNCHANGED pass
    /\ prev' = NoPrev
    /\ UNCHANGED <<page, xpathCache, chunksSeen, arg, chunksArray, consoleErrors,
                   currentScrollPosition, settles, steady, failures, completion, followed, llm>>

\* window.processElements(c, scrolls, offset) called directly
ProcessElementsCall ==
    /\ Idle
    /\ \E c \in 0..1, scrolls \in BOOLEAN, offset \in 0..1 :
          /\ op' = "processElements"
          /\ results' = <<>>
          /\ ret' = NoRet
          /\ processElements(c, scrolls, offset, <<>>, <<>>, 0, 0)
    /\ prev' = NoPrev
    /\ UNCHANGED <<page, xpathCache, chunksSeen, arg, totalChunks, chunksArray,
                   consoleErrors, currentScrollPosition, settles, steady, failures, completion,
                   followed, llm>>

\* the heights window.scrollToHeight is called with: the top, an offset inside
\* the document and the height of the document
ScrollTargets == {0, 1, scrollHeight}

\* window.scrollToHeight(h) called directly, up to its await
ScrollToHeightCall ==
    /\ Idle
    /\ \E h \in ScrollTargets :
          /\ arg' = <<h>>
          /\ scrollToHeight(h, <<>>)
    /\ op' = "scrollToHeight"
    /\ pc' = "scrolling"
    /\ ret' = NoRet
    /\ prev' = NoPrev
    /\ UNCHANGED <<page, xpathCache, chunksSeen, pass, totalChunks, chunksArray,
                   results, consoleErrors, currentScrollPosition, settles, steady,
                   walks, visibilityCache, rectReads, generatorCalls, failures, completion, followed, llm>>

\* a tick of the clock while a timer is pending and none is due
Tick ==
    /\ (listening /\ scrollEndTimer > 0) \/ (second.pc = "settling" /\ second.timer > 0)
    /\ ~ (listening /\ scrollEndTimer = 0)
    /\ ~ (second.pc = "settling" /\ second.timer = 0)
    /\ scrollEndTimer' = IF listening THEN scrollEndTimer - 1 ELSE scrollEndTimer
    /\ quiet' = IF listening THEN quiet + 1 ELSE quiet
    /\ second' = IF second.pc = "settling" THEN [second EXCEPT !.timer = @ - 1] ELSE second
    /\ UNCHANGED <<page, scrollY, scrollX, xpathCache, chunksSeen, op, arg, pc,
                   pass, totalChunks, chunksArray, results, ret, listening,
                   consoleErrors, currentScrollPosition, scrollLog, settles, steady,
                   walks, visibilityCache, rectReads, generatorCalls, failures, completion, prev, followed, llm>>

\* a scroll event reaches the listener: the event of the call's own scroll
\* (the offset is the same) or one of a scroll by the user or the page (the
\* offset has moved)
ScrollEvent ==
    /\ listening
    /\ \E y \in ScrollRange(scrollHeight, innerHeight) :
          /\ scrollY' = y
          /\ steady' = (steady /\ y = scrollY)
    /\ scrollEndTimer' = handleScrollEnd(scrollEndTimer)
    /\ quiet' = 0
    /\ second' = HeardBySecond(TRUE)
    /\ UNCHANGED <<page, scrollX, xpathCache, chunksSeen, op, arg, pc, pass,
                   totalChunks, chunksArray, results, ret, listening, consoleErrors,
                   currentScrollPosition, scrollLog, settles, walks, visibilityCache, rectReads, generatorCalls,
                   failures, completion, prev, followed, llm>>

\* a pass that walks the tree without waiting for its scroll to settle
ScrollSettledEarly ==
    /\ pc = "settling"
    /\ DiscoverCandidates(scrollY, walks, generatorCalls)
    /\ UNCHANGED <<page, scrollY, scrollX, xpathCache, chunksSeen, op, arg, chunk,
                   scrollToChunk, indexOffset, totalChunks, chunksArray, results,
                   ret, wait, consoleErrors, currentScrollPosition, passes,
                   scrollLog, settles, steady, failures, completion, prev, followed, llm>>

\* the scroll of a pass has settled: the pass walks the tree
ScrollSettled ==
    /\ pc = "settling"
    /\ ScrollEnded
    /\ DiscoverCandidates(scrollY, walks, generatorCalls)
    /\ UNCHANGED <<page, scrollY, scrollX, xpathCache, chunksSeen, op, arg, chunk,
                   scrollToChunk, indexOffset, totalChunks, chunksArray, results,
                   ret, consoleErrors, currentScrollPosition, passes, scrollLog,
                   steady, failures, completion, prev, followed, llm>>

\* the scroll of a direct scrollToHeight call has settled: the call returns
ScrollToHeightReturned ==
    /\ pc = "scrolling"
    /\ ScrollEnded
    /\ pc' = "returned"
    /\ ret' = ReturnedNothing
    /\ UNCHANGED <<page, scrollY, scrollX, xpathCache, chunksSeen, op, arg, pass,
                   totalChunks, chunksArray, results, consoleErrors,
                   currentScrollPosition, scrollLog, steady, walks, visibilityCache, rectReads, generatorCalls,
                   failures, completion, prev, followed, llm>>

\* candidates whose locator set is not in the cache
Uncached == ToGenerate(candidateElements)

\* a cache that keeps an empty locator set for the nodes in done
CacheWithEmptySets(done) ==
    [k \in DOMAIN xpathCache \cup {NodeKey(n) : n \in done} |->
        IF k \in DOMAIN xpathCache THEN xpathCache[k] ELSE <<>>]

\* xpathCache once the generations of the nodes in done have resolved
CacheWith(done) ==
    [k \in DOMAIN xpathCache \cup {NodeKey(n) : n \in done} |->
        IF k \in DOMAIN xpathCache THEN xpathCache[k] ELSE generateXPaths(doc, k[2])]

\* the resolved values of xpathPromises, in candidate order
ResolvedXPaths ==
    [i \in 1..Len(candidateElements) |->
        IF NodeKey(candidateElements[i]) \in DOMAIN xpathCache
        THEN xpathCache[NodeKey(candidateElements[i])]
        ELSE generateXPaths(doc, candidateElements[i])]

\* orders in which the promises of n candidates settle: in the order of the
\* candidates and in the opposite one
CompletionOrders(n) == { [j \in 1..n |-> j], [j \in 1..n |-> n + 1 - j] }

\* the values { index, xpaths } the promises resolve to, in the order in which
\* they settle
Completed(order) ==
    [j \in 1..Len(order) |-> [index |-> order[j] - 1, xpaths |-> ResolvedXPaths[order[j]]]]

\* Promise.all: the values in the order of the promises, whatever the order in
\* which they settled
PromiseAll(order, settled) ==
    [i \in 1..Len(order) |-> settled[CHOOSE j \in 1..Len(order) : order[j] = i]]

\* a pass that takes the results as they settle: the j-th to settle becomes
\* the j-th line and gets the j-th index
PassResultAsCompleted(order) ==
    AssembleOutput(doc, [j \in 1..Len(order) |-> candidateElements[order[j]]],
                   [j \in 1..Len(order) |-> ResolvedXPaths[order[j]]], indexOffset)

\* the return value of the pass in progress when its promises settle in
\* the given order: results.forEach files each result under the index it
\* carries
PassResult(order) ==
    LET joined == PromiseAll(order, Completed(order))
        filed == [i \in 1..Len(joined) |->
                    joined[CHOOSE j \in 1..Len(joined) : joined[j].index = i - 1].xpaths]
    IN  AssembleOutput(doc, candidateElements, filed, indexOffset)

\* every generation reaches its cache write, the failed ones too
StoredDespiteFailure(failed) == Uncached

\* the generations whose promise resolves, and so reach the cache write of
\* their then-callback, when those of the nodes in failed reject
Stored(failed) == Uncached \ failed

\* a join that drops the failed generations and returns the rest
LocatorsFailedSwallowed ==
    /\ pc = "locating"
    /\ \E failed \in SUBSET Uncached :
          /\ failed # {}
          /\ Cardinality(failed) <= MaxFailures
          /\ failures' = Cardinality(failed)
          /\ xpathCache' = CacheWith(Stored(failed))
          /\ ret' = [ReturnedNothing EXCEPT
                       !.outputString = AssembleOutput(doc, candidateElements,
                                            ResolvedXPaths, indexOffset).outputString,
                       !.selectorMap =
                           [k \in {j \in 0..(Len(candidateElements) - 1) :
                                      candidateElements[j + 1] \notin failed}
                              |-> ResolvedXPaths[k + 1]],
                       !.chunk = chunk, !.chunks = chunksArray]
    /\ pc' = "returned"
    /\ UNCHANGED <<page, scrollY, scrollX, chunksSeen, op, arg, pass, totalChunks,
                   chunksArray, results, wait, consoleErrors, currentScrollPosition,
                   scrollLog, settles, steady, walks, visibilityCache, rectReads, generatorCalls, completion,
                   prev, followed, llm>>

\* Promise.all rejects: some locator generation failed, the others resolved
LocatorsFailed ==
    /\ pc = "locating"
    /\ \E failed \in SUBSET Uncached :
          /\ failed # {}
          /\ Cardinality(failed) <= MaxFailures
          /\ failures' = Cardinality(failed)
          /\ xpathCache' = CacheWith(Stored(failed))
    /\ pc' = "failed"
    /\ ret' = Thrown(LocatorError)
    /\ UNCHANGED <<page, scrollY, scrollX, chunksSeen, op, arg, pass, totalChunks,
                   chunksArray, results, wait, consoleErrors, currentScrollPosition,
                   scrollLog, settles, steady, walks, visibilityCache, rectReads, generatorCalls, completion,
                   prev, followed, llm>>

\* Promise.all resolves in processDom or in a direct processElements call:
\* the output is assembled and returned
LocatorsJoined ==
    /\ pc = "locating"
    /\ op \in {"processDom", "processElements"}
    /\ xpathCache' = CacheWith(Uncached)
    /\ pc' = "returned"
    /\ \E order \in CompletionOrders(Len(candidateElements)) :
          /\ completion' = order
          /\ ret' = [ReturnedNothing EXCEPT
                       !.outputString = PassResult(order).outputString,
                       !.selectorMap = PassResult(order).selectorMap,
                       !.chunk = IF op = "processDom" THEN chunk ELSE Undefined,
                       !.chunks = IF op = "processDom" THEN chunksArray ELSE <<>>]
    /\ UNCHANGED <<page, scrollY, scrollX, chunksSeen, op, arg, pass, totalChunks,
                   chunksArray, results, wait, consoleErrors, currentScrollPosition,
                   scrollLog, settles, steady, walks, visibilityCache, rectReads, generatorCalls, failures, prev,
                   followed, llm>>

\* an index that is not advanced
NextIndexStale(index, result) == index

\* index += Object.keys(result.selectorMap).length
NextIndex(index, result) == index + Cardinality(DOMAIN result.selectorMap)

\* Promise.all resolves in processAllOfDom: the chunk's result is kept and the
\* loop goes on with the next chunk, or leaves for the final scroll
ChunkProcessed ==
    /\ pc = "locating"
    /\ op = "processAllOfDom"
    /\ xpathCache' = CacheWith(Uncached)
    /\ \E order \in CompletionOrders(Len(candidateElements)) :
          /\ completion' = order
          /\ results' = Append(results, PassResult(order))
          /\ LET index == NextIndex(indexOffset, PassResult(order))
             IN  IF chunk + 1 < totalChunks
                 THEN processElements(chunk + 1, TRUE, index, passes, scrollLog,
                                      walks, generatorCalls)
                 ELSE /\ ScrollBackToTop(scrollLog)
                      /\ UNCHANGED <<pass, walks, visibilityCache, rectReads, generatorCalls>>
    /\ UNCHANGED <<page, chunksSeen, op, arg, totalChunks, chunksArray, ret,
                   consoleErrors, currentScrollPosition, settles, steady, failures,
                   prev, followed, llm>>

\* results.reduce((acc, result) => ({ ...acc, ...result.selectorMap }), {})
RECURSIVE MergeSelectorMaps(_, _)
MergeSelectorMaps(rs, acc) ==
    IF rs = <<>> THEN acc
    ELSE MergeSelectorMaps(Tail(rs), Head(rs).selectorMap @@ acc)

\* the final scroll of processAllOfDom has settled: the merged result is returned
AllOfDomReturned ==
    /\ pc = "restoring"
    /\ ScrollEnded
    /\ pc' = "returned"
    /\ ret' = [ReturnedNothing EXCEPT
                 !.outputString =
                     Flatten([i \in 1..Len(results) |-> results[i].outputString]),
                 !.selectorMap = MergeSelectorMaps(results, EmptyMap)]
    /\ UNCHANGED <<page, scrollY, scrollX, xpathCache, chunksSeen, op, arg, pass,
                   totalChunks, chunksArray, results, consoleErrors,
                   currentScrollPosition, scrollLog, steady, walks, visibilityCache, rectReads, generatorCalls,
                   failures, completion, prev, followed, llm>>

\* window.storeDOM(): the snapshot is returned
StoreDOMCall ==
    /\ Idle
    /\ op' = "storeDOM"
    /\ pc' = "returned"
    /\ ret' = [ReturnedNothing EXCEPT !.html = storeDOM(doc)]
    /\ prev' = NoPrev
    /\ UNCHANGED <<page, scrollY, scrollX, xpathCache, chunksSeen, arg, pass,
                   totalChunks, chunksArray, results, wait, consoleErrors,
                   currentScrollPosition, scrollLog, settles, steady, walks, visibilityCache, rectReads,
                   generatorCalls, failures, completion, followed, llm>>

\* the strings restoreDOM is called with: none, the snapshot of the document
\* as it is and the snapshot of a plain document
SnapshotInputs ==
    {NoSnapshot, storeDOM(doc), storeDOM(PlainDocument(scrollHeight))}

\* window.restoreDOM(storedDOM)
RestoreDOMCall ==
    /\ Idle
    /\ \E storedDOM \in SnapshotInputs :
          LET restored == restoreDOM(doc, storedDOM)
          IN  /\ restored.replaced => generation < MaxRestores
              /\ arg' = <<storedDOM>>
              /\ doc' = restored.doc
              /\ generation' = IF restored.replaced THEN generation + 1 ELSE generation
              /\ consoleErrors' = restored.errors
    /\ op' = "restoreDOM"
    /\ pc' = "returned"
    /\ ret' = ReturnedNothing
    /\ prev' = NoPrev
    /\ UNCHANGED <<scrollHeight, innerHeight, scrollY, scrollX, xpathCache,
                   chunksSeen, pass, totalChunks, chunksArray, results, wait,
                   currentScrollPosition, scrollLog, settles, steady, walks, visibilityCache, rectReads,
                   generatorCalls, failures, completion, followed, llm>>

\* the locators getElementBoundingBoxes is called with: the locator of the
\* body, the locators issued for the nodes of the document and a locator that
\* matches no node
LocatorInputs ==
    {<<>>, <<3>>} \cup {PathOf(doc, n) : n \in {m \in NodeIds : doc[m].kind # "absent"}}

\* window.getElementBoundingBoxes(xpath)
GetElementBoundingBoxesCall ==
    /\ Idle
    /\ \E xpath \in LocatorInputs :
          LET found == getElementBoundingBoxes(doc, xpath, scrollX, scrollY)
          IN  /\ arg' = <<xpath>>
              /\ IF found.error = NoError
                 THEN /\ pc' = "returned"
                      /\ ret' = [ReturnedNothing EXCEPT !.boxes = found.boxes]
                 ELSE /\ pc' = "failed"
                      /\ ret' = Thrown(found.error)
    /\ op' = "getElementBoundingBoxes"
    /\ prev' = NoPrev
    /\ UNCHANGED <<page, scrollY, scrollX, xpathCache, chunksSeen, pass,
                   totalChunks, chunksArray, results, wait, consoleErrors,
                   currentScrollPosition, scrollLog, settles, steady, walks, visibilityCache, rectReads,
                   generatorCalls, failures, completion, followed, llm>>

(***************************************************************************)
(* The caller                                                              *)
(***************************************************************************)
\* the call is over: its locals are gone
CallEnds ==
    /\ pc' = "idle"
    /\ op' = "none"
    /\ arg' = <<>>
    /\ chunk' = 0
    /\ scrollToChunk' = FALSE
    /\ indexOffset' = 0
    /\ totalChunks' = 0
    /\ chunksArray' = <<>>
    /\ candidateElements' = <<>>
    /\ results' = <<>>
    /\ ret' = NoRet
    /\ consoleErrors' = <<>>
    /\ currentScrollPosition' = 0
    /\ passes' = <<>>
    /\ scrollLog' = <<>>
    /\ settles' = 0
    /\ steady' = TRUE
    /\ walks' = 0
    /\ visibilityCache' = <<>>
    /\ rectReads' = <<>>
    /\ generatorCalls' = 0
    /\ failures' = 0
    /\ completion' = <<>>

\* the caller adds the chunk returned by processDom to its roster
CallerAddsChunk ==
    /\ pc = "returned"
    /\ op = "processDom"
    /\ chunksSeen' = Append(chunksSeen, ret.chunk)
    /\ prev' = NoPrev
    /\ CallEnds
    /\ UNCHANGED <<page, scrollY, scrollX, xpathCache, wait, followed, llm>>

\* the caller takes a result, or catches an error, and leaves its roster alone
CallerMovesOn ==
    /\ pc \in {"returned", "failed"}
    /\ prev' = IF op = "processDom" /\ pc = "returned" /\ steady
               THEN [valid |-> TRUE, seen |-> chunksSeen, ret |-> ret]
               ELSE NoPrev
    /\ followed' = IF op = "processDom" THEN FALSE ELSE followed
    /\ UNCHANGED llm
    /\ CallEnds
    /\ UNCHANGED <<page, scrollY, scrollX, xpathCache, chunksSeen, wait>>

\* the caller starts a new task with an empty roster
NewTask ==
    /\ Idle
    /\ chunksSeen # <<>> \/ ~ followed
    /\ chunksSeen' = <<>>
    /\ followed' = TRUE
    /\ UNCHANGED llm
    /\ prev' = NoPrev
    /\ UNCHANGED <<page, scrollY, scrollX, xpathCache, op, arg, pc, pass,
                   totalChunks, chunksArray, results, ret, wait, consoleErrors,
                   currentScrollPosition, scrollLog, settles, steady, walks, visibilityCache, rectReads,
                   generatorCalls, failures, completion>>

\* the extraction calls, their continuations and the caller, on a page that
\* nobody else scrolls
Next ==
    \/ ProcessDomCall
    \/ ProcessAllOfDomCall
    \/ ProcessElementsCall
    \/ Tick
    \/ ScrollSettled
    \/ LocatorsFailed
    \/ LocatorsJoined
    \/ ChunkProcessed
    \/ AllOfDomReturned
    \/ CallerAddsChunk
    \/ CallerMovesOn
    \/ NewTask

\* with direct calls of scrollToHeight and with scroll events
NextScroll ==
    \/ Next
    \/ ScrollToHeightCall
    \/ ScrollToHeightReturned
    \/ ScrollEvent

\* with calls of storeDOM and restoreDOM
NextSnapshot ==
    \/ Next
    \/ StoreDOMCall
    \/ RestoreDOMCall

\* with calls of getElementBoundingBoxes
NextBoxes ==
    \/ Next
    \/ GetElementBoundingBoxesCall

\* a second extraction call, processElements(c), starts while a call that has
\* scrolled to another chunk is in flight: it scrolls to its own chunk, which
\* the listener of the first call hears, and waits for its scroll to settle
SecondCallStarts ==
    /\ pc \in {"settling", "locating"}
    /\ scrollToChunk
    /\ second.pc = "none"
    /\ \E c \in 0..(CeilDiv(scrollHeight, calculateViewportHeight(innerHeight)) - 1) :
          /\ OffsetTop(c, scrollHeight, innerHeight) # OffsetTop(chunk, scrollHeight, innerHeight)
          /\ scrollY' = ScrollPositionAfter(OffsetTop(c, scrollHeight, innerHeight),
                                            scrollHeight, innerHeight)
          /\ second' = [NoSecond EXCEPT !.pc = "settling", !.chunk = c,
                                        !.timer = handleScrollEnd(NoTimer)]
    /\ scrollX' = 0
    /\ scrollEndTimer' = IF listening /\ scrollY' # scrollY
                         THEN handleScrollEnd(scrollEndTimer) ELSE scrollEndTimer
    /\ quiet' = IF listening /\ scrollY' # scrollY THEN 0 ELSE quiet
    /\ steady' = (steady /\ scrollY' = scrollY)
    /\ UNCHANGED <<page, xpathCache, chunksSeen, op, arg, pc, pass, totalChunks,
                   chunksArray, results, ret, listening, consoleErrors,
                   currentScrollPosition, scrollLog, settles, walks, visibilityCache,
                   rectReads, generatorCalls, failures, completion, prev, followed, llm>>

\* the scroll of the second call has settled: the call walks the tree
SecondCallSettled ==
    /\ second.pc = "settling"
    /\ second.timer = 0
    /\ second' = [second EXCEPT !.pc = "locating", !.timer = NoTimer, !.at = scrollY,
                                !.cands = FindCandidates(doc, scrollY, innerHeight)]
    /\ UNCHANGED <<page, scrollY, scrollX, xpathCache, chunksSeen, op, arg, pc, pass,
                   totalChunks, chunksArray, results, ret, listening, scrollEndTimer,
                   quiet, consoleErrors, currentScrollPosition, scrollLog, settles,
                   steady, walks, visibilityCache, rectReads, generatorCalls, failures,
                   completion, prev, followed, llm>>

\* the locators of the second call are joined: the call returns and its
\* caller drops the result
SecondCallReturns ==
    /\ second.pc = "locating"
    /\ xpathCache' = CacheWith(ToGenerate(second.cands))
    /\ second' = NoSecond
    /\ UNCHANGED <<page, scrollY, scrollX, chunksSeen, op, arg, pc, pass,
                   totalChunks, chunksArray, results, ret, listening, scrollEndTimer,
                   quiet, consoleErrors, currentScrollPosition, scrollLog, settles,
                   steady, walks, visibilityCache, rectReads, generatorCalls, failures,
                   completion, prev, followed, llm>>

\* the calls of one caller, and a second call in flight beside them
NextTwo ==
    \/ Next
    \/ SecondCallStarts
    \/ SecondCallSettled
    \/ SecondCallReturns

\* everything but the client
browser ==
    <<page, scrollY, scrollX, xpathCache, chunksSeen, op, arg, pc, pass,
      totalChunks, chunksArray, results, ret, wait, consoleErrors,
      currentScrollPosition, scrollLog, settles, steady, walks, visibilityCache,
      rectReads, generatorCalls, failures, completion, prev, followed>>

\* new OpenRouterClient({ enableCaching, cache, ... })
NewOpenRouterClient ==
    /\ llm.pc = "none"
    /\ \E enableCaching \in BOOLEAN :
          llm' = [llm EXCEPT !.pc = "idle", !.enableCaching = enableCaching]
    /\ UNCHANGED browser

\* client.createChatCompletion({ options, logger, retries })
CreateChatCompletionCall ==
    /\ llm.pc = "idle"
    /\ \E retries \in 0..MaxRetries :
          llm' = createChatCompletion(
                     [llm EXCEPT !.given = retries, !.calls = 0, !.attempts = <<>>],
                     retries)
    /\ UNCHANGED browser

\* model.doGenerate rejects
DoGenerateRejects ==
    /\ llm.pc = "generating"
    /\ llm' = RetryOrThrow([llm EXCEPT !.calls = @ + 1,
                                       !.attempts = Append(@, RequestError)],
                           RequestError)
    /\ UNCHANGED browser

\* model.doGenerate resolves
DoGenerateResolves ==
    /\ llm.pc = "generating"
    /\ \E answer \in Answers :
          llm' = HandleResponse([llm EXCEPT !.calls = @ + 1,
                                           !.attempts = Append(@, answer)],
                                answer)
    /\ UNCHANGED browser

\* the caller has the result, or the error, of createChatCompletion
ChatCompletionSettled ==
    /\ llm.pc \in {"returned", "thrown"}
    /\ llm' = [llm EXCEPT !.pc = "idle", !.out = NoAnswer]
    /\ UNCHANGED browser

NextLLM ==
    \/ NewOpenRouterClient
    \/ CreateChatCompletionCall
    \/ DoGenerateRejects
    \/ DoGenerateResolves
    \/ ChatCompletionSettled

Spec == Init /\ [][Next]_vars

SpecSched == InitSched /\ [][Next]_vars

SpecSnapshot == InitSnapshot /\ [][NextSnapshot]_vars

SpecScroll == InitScroll /\ [][NextScroll]_vars

\* the timer callback of a pass is due
SettleDue == pc = "settling" /\ listening /\ scrollEndTimer = 0

\* weak fairness of ScrollSettled, which is enabled exactly when SettleDue
SettleCallbackRuns == []<>(~ SettleDue) \/ []<><<ScrollSettled>>_vars

\* the event loop: the clock goes on while a timer is pending, and the
\* callback of a timer that is due runs
EventLoop ==
    /\ WF_vars(Tick)
    /\ SettleCallbackRuns
    /\ WF_vars(ScrollToHeightReturned)
    /\ WF_vars(AllOfDomReturned)

SpecScrollLive == InitScroll /\ [][NextScroll]_vars /\ EventLoop

SpecBoxes == InitBoxes /\ [][NextBoxes]_vars

SpecPass == InitPass /\ [][Next]_vars

SpecCover == InitCover /\ [][Next]_vars

SpecLLM == InitPlain /\ [][NextLLM]_vars

SpecTwo == InitPlain /\ [][NextTwo]_vars

(***************************************************************************)
(* Properties                                                              *)
(***************************************************************************)
\* total number of chunks of the page
NumChunks == CeilDiv(scrollHeight, calculateViewportHeight(innerHeight))

Returned == pc = "returned"

\* line starts with "<k>:"
StartsWithKey(line, k) == Len(line) >= 2 /\ line[1] = ToString(k) /\ line[2] = ":"

\* an element, the body included, that carries hidden, disabled or
\* aria-disabled="true"
SwitchedOff(n) == doc[n].kind = "element" /\ ~ isActive(doc[n])

\* n and its ancestors up to the body
RECURSIVE AncestorsOrSelf(_)
AncestorsOrSelf(n) == IF n = Body THEN {Body} ELSE {n} \cup AncestorsOrSelf(Parent(n))

\* C1: in every returned result the number of lines of outputString equals the
\* number of keys of selectorMap, every key starts exactly one line and every
\* line starts with a key, also when a candidate's text holds a line break.
C1_LinesMatchKeys ==
    Returned =>
        LET lines == Lines(ret.outputString)
            keys == DOMAIN ret.selectorMap
        IN  /\ Len(lines) = Cardinality(keys)
            /\ \A k \in keys :
                  Cardinality({i \in 1..Len(lines) : StartsWithKey(lines[i], k)}) = 1
            /\ \A i \in 1..Len(lines) : \E k \in keys : StartsWithKey(lines[i], k)

\* sum of the numbers of keys of the per-chunk results
RECURSIVE TotalCandidates(_)
TotalCandidates(rs) ==
    IF rs = <<>> THEN 0
    ELSE Cardinality(DOMAIN Head(rs).selectorMap) + TotalCandidates(Tail(rs))

\* C2: processAllOfDom runs processElements for the chunks 0..ceil(H/V)-1, each
\* once, and the keys of the merged selectorMap are exactly
\* 0..total_candidates-1; no two chunks emit the same index.
C2_ChunkCoverage ==
    (Returned /\ op = "processAllOfDom") =>
        /\ Len(passes) = NumChunks
        /\ \A i \in 1..Len(passes) : passes[i][1] = i - 1
        /\ Len(results) = NumChunks
        /\ DOMAIN ret.selectorMap = 0..(TotalCandidates(results) - 1)
        /\ \A i, j \in 1..Len(results) :
              i # j => DOMAIN results[i].selectorMap \cap DOMAIN results[j].selectorMap = {}

\* a whole-document run over several chunks in which the second chunk starts
\* at a non-zero index
C2_Witness ==
    /\ Returned
    /\ op = "processAllOfDom"
    /\ NumChunks >= 3
    /\ \E i \in 2..Len(passes) : passes[i][2] > 0
    /\ Cardinality(DOMAIN ret.selectorMap) >= 4

\* C3: no candidate is an element that carries hidden, disabled or
\* aria-disabled="true", nor a node in the subtree of such an element.
C3_SwitchedOffSubtreesPruned ==
    \A i \in 1..Len(candidateElements) :
        \A a \in AncestorsOrSelf(candidateElements[i]) : ~ SwitchedOff(a)

\* distance of the top of chunk c from the scroll position pickChunk read
ChunkDistance(c) ==
    Abs(currentScrollPosition - calculateViewportHeight(innerHeight) * c)

UnseenChunks == (0..(NumChunks - 1)) \ Range(chunksSeen)

PickedChunk == op = "processDom" /\ pc \in {"settling", "locating", "returned"}

\* C4: pickChunk returns the unseen chunk whose top is nearest to the scroll
\* position, the lowest index among the nearest ones; with H=3000, V=1000,
\* chunksSeen=[0], scrollY=0 it returns chunk 1.
C4_NearestUnseenChunk ==
    /\ PickedChunk =>
          /\ chunk \in UnseenChunks
          /\ \A c \in UnseenChunks :
                \/ ChunkDistance(chunk) < ChunkDistance(c)
                \/ ChunkDistance(chunk) = ChunkDistance(c) /\ chunk <= c
    /\ pickChunk(<<0>>, 3000, 1000, 0).ok
    /\ pickChunk(<<0>>, 3000, 1000, 0).chunk = 1

\* the picked chunk ties with a higher unseen chunk
C4_Witness ==
    /\ PickedChunk
    /\ \E c \in UnseenChunks : c > chunk /\ ChunkDistance(c) = ChunkDistance(chunk)

\* C5: when every chunk is in chunksSeen (also when there is no chunk),
\* processDom fails with the error of pickChunk before any scroll, tree walk or
\* locator generation, and returns nothing.
C5_ExhaustionFailsFirst ==
    (op = "processDom" /\ UnseenChunks = {}) =>
        /\ pc = "failed"
        /\ ret = Thrown(ExhaustedError)
        /\ scrollLog = <<>>
        /\ scrollY = currentScrollPosition
        /\ passes = <<>>
        /\ walks = 0
        /\ generatorCalls = 0

\* processDom has failed on a page of several chunks, all of them seen
C5_Witness ==
    /\ op = "processDom"
    /\ pc = "failed"
    /\ NumChunks >= 2
    /\ Range(chunksSeen) = 0..(NumChunks - 1)

\* C6: when the caller starts from an empty roster and adds every returned
\* chunk, each of the first N = ceil(H/V) calls picks a chunk that is not in the
\* roster, the roster never holds a chunk twice or a chunk outside 0..N-1, and
\* call N+1 (the one made with N chunks in the roster) fails as exhausted.
C6_RosterCoversAllChunks ==
    followed =>
        /\ \A i, j \in 1..Len(chunksSeen) : i # j => chunksSeen[i] # chunksSeen[j]
        /\ Range(chunksSeen) \subseteq 0..(NumChunks - 1)
        /\ (op = "processDom" /\ Len(chunksSeen) < NumChunks) =>
              /\ ret.error # ExhaustedError
              /\ chunk \in UnseenChunks
              /\ Returned => ret.chunk = chunk
        /\ (op = "processDom" /\ Len(chunksSeen) >= NumChunks) =>
              /\ Len(chunksSeen) = NumChunks
              /\ Range(chunksSeen) = 0..(NumChunks - 1)
              /\ pc = "failed"
              /\ ret.error = ExhaustedError

\* call N+1 of a task on a page of three or more chunks that were not visited
\* in ascending order
C6_Witness ==
    /\ followed
    /\ op = "processDom"
    /\ pc = "failed"
    /\ NumChunks >= 3
    /\ Len(chunksSeen) = NumChunks
    /\ \E i \in 1..(Len(chunksSeen) - 1) : chunksSeen[i] > chunksSeen[i + 1]

\* C7: a successful processDom returns the chunk it processed and the full
\* ascending list of chunk indices, and no step of the call changes the
\* caller's chunksSeen.
C7_ProcessDomReturnsChunkAndAllChunks ==
    [][op' = "processDom" =>
          /\ chunksSeen' = chunksSeen
          /\ pc' = "returned" =>
                /\ ret'.ok
                /\ ret'.chunk = chunk'
                /\ passes' = <<<<ret'.chunk, 0>>>>
                /\ scrollLog' = <<OffsetTop(ret'.chunk, scrollHeight, innerHeight)>>
                /\ ret'.chunks = [i \in 1..NumChunks |-> i - 1]]_vars

\* processDom has returned with a non-empty roster on a page of three or more
\* chunks: the full list differs from the seen and from the remaining chunks
C7_Witness ==
    /\ Returned
    /\ op = "processDom"
    /\ chunksSeen # <<>>
    /\ Len(ret.chunks) >= 3
    /\ ret.chunk \notin Range(chunksSeen)

\* C8: a processDom call that directly follows a successful processDom call
\* with the same chunksSeen returns the same chunk, outputString and
\* selectorMap.
C8_RepeatedProcessDomSameResult ==
    (Returned /\ op = "processDom" /\ prev.valid /\ prev.seen = chunksSeen
       /\ steady) =>
        ret = prev.ret

\* the second of two such calls has returned; the first one moved the window
\* to a clamped offset and the second one took every locator from the cache
C8_Witness ==
    /\ Returned
    /\ op = "processDom"
    /\ prev.valid
    /\ prev.seen = chunksSeen
    /\ generatorCalls = 0
    /\ ret.selectorMap # EmptyMap
    /\ scrollY # calculateViewportHeight(innerHeight) * chunk
    /\ scrollY # currentScrollPosition \/ chunksSeen # <<>>

\* the body holds a childless button with the disabled attribute and a
\* paragraph with one non-empty text node
DisabledButtonAndParagraph ==
    /\ doc[1].tag = "BUTTON"
    /\ HasAttribute(doc[1], "disabled")
    /\ doc[2].kind = "absent"
    /\ doc[4].tag = "P"
    /\ doc[4].attrs = <<>>
    /\ doc[5].kind = "text"
    /\ Trim(doc[5].data) # <<>>

\* a single pass over that document has returned with the paragraph in view
C9_Scenario ==
    /\ Returned
    /\ op \in {"processDom", "processElements"}
    /\ DisabledButtonAndParagraph
    /\ ~ StyleHides(doc[4].style)
    /\ RectVisible(doc[4], scrollY, innerHeight)

\* C9 as claimed: the pass over that document returns a selectorMap with
\* exactly one entry and an outputString with exactly one line.
C9_OneEntryOneLine ==
    C9_Scenario =>
        /\ Cardinality(DOMAIN ret.selectorMap) = 1
        /\ Len(Lines(ret.outputString)) = 1

\* C9 amended: the pass over that document returns a selectorMap with exactly
\* two entries, the paragraph element and then its text node, none for the
\* button, and an outputString of the paragraph's record followed by the text
\* node's record.
C9_ParagraphAndItsText ==
    C9_Scenario =>
        /\ candidateElements = <<4, 5>>
        /\ DOMAIN ret.selectorMap = {indexOffset, indexOffset + 1}
        /\ ret.selectorMap[indexOffset] = generateXPaths(doc, 4)
        /\ ret.selectorMap[indexOffset + 1] = generateXPaths(doc, 5)
        /\ ret.outputString =
               <<ToString(indexOffset), ":", "<", "p", ">">> \o Trim(doc[5].data)
               \o <<"<", "/", "p", ">", NL>>
               \o <<ToString(indexOffset + 1), ":">> \o Trim(doc[5].data) \o <<NL>>

C9_Witness == C9_Scenario /\ indexOffset = 1

\* C10: a step in which a locator generation fails ends the pass with an error
\* and without outputString or selectorMap, a failed call returns nothing
\* later (in processAllOfDom no merged result either), and every returned
\* selectorMap has a gapless index range with a locator set for every index.
C10_LocatorFailureFailsTheCall ==
    [][/\ failures' > failures =>
             /\ pc' = "failed"
             /\ ~ ret'.ok
             /\ ret'.outputString = <<>>
             /\ ret'.selectorMap = EmptyMap
       /\ pc = "failed" => (pc' = "idle" /\ ret' = NoRet)
       /\ pc' = "returned" =>
             /\ \E lo \in 0..1, n \in 0..20 :
                   DOMAIN ret'.selectorMap = lo..(lo + n - 1)
             /\ \A k \in DOMAIN ret'.selectorMap : ret'.selectorMap[k] # <<>>]_vars

\* processAllOfDom has failed in its second or a later chunk, after the
\* results of the chunks before
C10_Witness ==
    /\ op = "processAllOfDom"
    /\ pc = "failed"
    /\ ret.error = LocatorError
    /\ results # <<>>
    /\ \E i \in 1..Len(results) : results[i].selectorMap # EmptyMap

C12_CacheScopedToDocument ==
    \A k \in DOMAIN xpathCache : k[1] = generation

\* C16: restoreDOM with a missing or empty snapshot leaves the document as it
\* is, logs one error and returns; with a non-empty snapshot it returns with
\* the nodes of the snapshot as the content of the body, which itself stays.
C16_RestoreDOM ==
    [][(op = "none" /\ op' = "restoreDOM") =>
          /\ pc' = "returned"
          /\ ret'.error = NoError
          /\ IF arg'[1] = NoSnapshot
             THEN /\ doc' = doc
                  /\ generation' = generation
                  /\ consoleErrors' = <<NoSnapshotError>>
             ELSE /\ \A n \in NodeIds : doc'[n] = arg'[1][n + 1]
                  /\ doc'[Body] = doc[Body]
                  /\ consoleErrors' = <<>>]_vars

\* restoreDOM has returned from a call without a snapshot, after an earlier
\* call that put the snapshot of another document in place
C16_Witness ==
    /\ op = "restoreDOM"
    /\ Returned
    /\ arg = <<NoSnapshot>>
    /\ consoleErrors = <<NoSnapshotError>>
    /\ generation = 1
    /\ doc # PlainDocument(scrollHeight)
    /\ doc[1].tag = "P"

\* the largest offset the window can be scrolled to
MaxScrollTop == Max(0, scrollHeight - innerHeight)

\* C13 as claimed: no scroll target that scrollToHeight issues lies beyond
\* the maximum scroll offset of the document, whoever calls it.
C13_ScrollTargetClamped ==
    \A i \in 1..Len(scrollLog) : scrollLog[i] <= MaxScrollTop

\* C13 amended: scrollToHeight(h) hands h itself to window.scrollTo, which is
\* h as given in a direct call, min(chunk * V, H - V) in a pass of
\* processElements and 0 in the final scroll of processAllOfDom; the scroll
\* position after the request is the target brought into the scroll range by
\* the browser, so it is never beyond the maximum scroll offset.
C13_TargetAsGivenPositionClamped ==
    [][Len(scrollLog') = Len(scrollLog) + 1 =>
          LET target == scrollLog'[Len(scrollLog')]
          IN  /\ scrollY' = Max(0, Min(target, scrollHeight - innerHeight))
              /\ scrollY' <= MaxScrollTop
              /\ op' = "scrollToHeight" => target = arg'[1]
              /\ pc' = "settling" =>
                    target = Min(calculateViewportHeight(innerHeight) * chunk',
                                 scrollHeight - innerHeight)
              /\ pc' = "restoring" => target = 0]_vars

\* a direct call with a height beyond the maximum scroll offset has returned
\* with the window at the bottom of a document of several viewports
C13_Witness ==
    /\ op = "scrollToHeight"
    /\ Returned
    /\ arg[1] > MaxScrollTop
    /\ scrollLog = arg
    /\ scrollY = MaxScrollTop
    /\ scrollY > 0

\* C14: as long as the listener of scrollToHeight is registered its timer is
\* due exactly one quiet window after the last scroll event it got, or after
\* the call when it got none, so every scroll event restarts the window; the
\* promise resolves only when that window has gone by, once, and in that step
\* the listener is removed; without the listener no timer is pending.
C14_QuietWindow ==
    /\ [](listening => scrollEndTimer = QuietTicks - quiet)
    /\ [](~ listening => scrollEndTimer = NoTimer)
    /\ [][(listening /\ ~ listening') =>
             (quiet = QuietTicks /\ settles' = settles + 1)]_vars
    /\ [][(settles' # settles /\ settles' # 0) => (listening /\ ~ listening')]_vars
    /\ []((op = "scrollToHeight" /\ Returned) => (settles = 1 /\ ~ listening))

\* a direct call has resolved although scroll events of a scroll by the user
\* arrived during its wait
C14_Witness ==
    /\ op = "scrollToHeight"
    /\ Returned
    /\ ~ steady
    /\ settles = 1
    /\ scrollY # ScrollPositionAfter(arg[1], scrollHeight, innerHeight)

\* C15: processAllOfDom runs its passes for the chunks 0, 1, ... in ascending
\* order, each with a scroll request to the offset of its chunk and a tree walk
\* only after the settle wait of that request has resolved; when it returns it
\* has made one more scroll request, to offset 0, as its last one, and has
\* waited for its settling too.
C15_AscendingChunksThenTop ==
    op = "processAllOfDom" =>
        /\ \A i \in 1..Len(passes) :
              /\ passes[i][1] = i - 1
              /\ scrollLog[i] = OffsetTop(i - 1, scrollHeight, innerHeight)
        /\ walks <= settles
        /\ settles <= Len(scrollLog)
        /\ pc = "locating" => (walks = Len(passes) /\ settles = Len(passes))
        /\ Returned =>
              /\ Len(passes) = NumChunks
              /\ walks = NumChunks
              /\ Len(scrollLog) = NumChunks + 1
              /\ scrollLog[Len(scrollLog)] = 0
              /\ settles = NumChunks + 1
              /\ ~ listening

\* processAllOfDom has returned from a page of three or more chunks whose last
\* chunk was scrolled to a clamped offset
C15_Witness ==
    /\ op = "processAllOfDom"
    /\ Returned
    /\ NumChunks >= 3
    /\ scrollLog[NumChunks] # calculateViewportHeight(innerHeight) * (NumChunks - 1)
    /\ scrollLog[NumChunks] > 0
    /\ scrollY = 0

\* the body and the nodes below it that are in the document
PresentNodes == {n \in {Body} \cup NodeIds : doc[n].kind # "absent"}

\* a call of getElementBoundingBoxes starts in this step
BoxesCalled == op = "none" /\ op' = "getElementBoundingBoxes"

\* C17: getElementBoundingBoxes called with a locator that is the path of no
\* node of the document returns an empty array, throws nothing and leaves the
\* document as it is.
C17_UnresolvableLocatorGivesNoBox ==
    [][(BoxesCalled /\ \A n \in PresentNodes : PathOf(doc, n) # arg'[1]) =>
          /\ pc' = "returned"
          /\ ret'.ok
          /\ ret'.error = NoError
          /\ ret'.boxes = <<>>
          /\ doc' = doc
          /\ generation' = generation]_vars

\* the call with a locator that matches nothing has returned on a page whose
\* body holds an option with a text
C17_Witness ==
    /\ op = "getElementBoundingBoxes"
    /\ Returned
    /\ \A n \in PresentNodes : PathOf(doc, n) # arg[1]
    /\ ret.boxes = <<>>
    /\ doc[2].tag = "OPTION"
    /\ Trim(doc[3].data) # <<>>

\* the place of node n in document order
DocPosition(n) == CHOOSE i \in 1..Len(DocOrder) : DocOrder[i] = n

\* the option elements below element e
OptionsBelow(e) ==
    {n \in PresentNodes \ {Body} :
        /\ doc[n].kind = "element"
        /\ doc[n].tag = "OPTION"
        /\ e \in AncestorsOrSelf(Parent(n))}

\* the first node of a non-empty set of nodes in document order
FirstOf(nodes) ==
    CHOOSE n \in nodes : \A m \in nodes : DocPosition(n) <= DocPosition(m)

\* the option that decides: the first selected one, else the first one
DecidingOption(e) ==
    LET selected == {n \in OptionsBelow(e) : HasAttribute(doc[n], "selected")}
    IN  IF selected # {} THEN FirstOf(selected) ELSE FirstOf(OptionsBelow(e))

\* C18: when the element e that the locator resolves to has an option below
\* it, the call returns, and what it returns is decided by the first selected
\* option below e, else the first option: one box with that option's trimmed
\* text and the rectangle of e in page coordinates at its full height when the
\* text is not blank, no box when it is; for the select with
\* <option selected>Blue</option> that is one box with the text "Blue".
C18_OptionDecides ==
    [][BoxesCalled =>
          \A e \in PresentNodes :
              (/\ doc[e].kind = "element"
               /\ PathOf(doc, e) = arg'[1]
               /\ OptionsBelow(e) # {}) =>
                  LET text == TextContent(doc, DecidingOption(e))
                  IN  /\ pc' = "returned"
                      /\ ret'.boxes =
                            IF Trim(text) # <<>>
                            THEN << [text |-> Trim(text),
                                     top |-> doc[e].top,
                                     left |-> doc[e].left,
                                     width |-> doc[e].width,
                                     height |-> 4 * doc[e].height] >>
                            ELSE <<>>
                      /\ (doc = BlueSelect(scrollHeight) /\ e = 1) =>
                            (/\ Len(ret'.boxes) = 1
                             /\ ret'.boxes[1].text = <<"B", "l", "u", "e">>)]_vars

\* the call on a select has returned one box with the trimmed text of the
\* second option, the selected one, while the window is scrolled sideways and
\* down
C18_Witness ==
    /\ op = "getElementBoundingBoxes"
    /\ Returned
    /\ arg = << <<1>> >>
    /\ doc[1].tag = "SELECT"
    /\ ~ HasAttribute(doc[2], "selected")
    /\ Trim(doc[3].data) # <<>>
    /\ HasAttribute(doc[6], "selected")
    /\ Len(ret.boxes) = 1
    /\ ret.boxes[1].text = Trim(doc[7].data)
    /\ ret.boxes[1].text # doc[3].data
    /\ scrollX = 1
    /\ scrollY > 0

\* the nodes the tree walk of the body reaches: those below the body none of
\* whose ancestors up to the body, nor themselves, the filter rejects
ReachedByWalk ==
    {n \in PresentNodes \ {Body} :
        \A m \in AncestorsOrSelf(n) \ {Body} : acceptNode(doc[m])}

\* the style and geometry test of element e in the window as it is
PassesStyleAndGeometry(e) ==
    /\ doc[e].style.display # "none"
    /\ doc[e].style.visibility # "hidden"
    /\ doc[e].style.opacity # "0"
    /\ doc[e].width > 0
    /\ doc[e].height > 0
    /\ doc[e].top - scrollY >= - doc[e].height
    /\ doc[e].top - scrollY + doc[e].height <= innerHeight + doc[e].height

\* the condition under which node n is to be a candidate
ToBeCandidate(n) ==
    IF doc[n].kind = "element"
    THEN /\ PassesStyleAndGeometry(n)
         /\ isActive(doc[n])
         /\ (isInteractiveElement(doc[n]) \/ isLeafElement(doc, n))
    ELSE /\ Trim(doc[n].data) # <<>>
         /\ PassesStyleAndGeometry(Parent(n))

\* the tree walk of the running pass is done
Walked == pc = "locating"

\* C19: after the tree walk of a pass the candidate list holds, of the nodes
\* the walk reaches, exactly those that meet the condition: an element that
\* passes the style and geometry test, is active and is interactive or a leaf;
\* a text node with non-blank content whose parent passes the style and
\* geometry test, whether the parent is a candidate or not. No other node is
\* in the list.
C19_CandidateIff ==
    Walked =>
        /\ \A n \in ReachedByWalk : n \in Range(candidateElements) <=> ToBeCandidate(n)
        /\ Range(candidateElements) \subseteq ReachedByWalk

\* the walk is done at the second chunk: the text of a transparent element in
\* the band is left out with its element, and the text of <span>Hello</span>,
\* now above the band, is left out with the span
C19_Witness ==
    /\ Walked
    /\ scrollY = 2
    /\ doc[4].style.opacity = "0"
    /\ doc[4].tag = "BUTTON"
    /\ doc[4].top = 2
    /\ doc[4].width > 0 /\ doc[4].height > 0
    /\ Range(candidateElements) = {}
    /\ {1, 2, 4, 5} \subseteq ReachedByWalk

\* the child nodes of the element n
Kids(n) == {m \in PresentNodes \ {Body} : Parent(m) = n}

\* some text node at or below n holds a character
HasText(n) ==
    \E m \in PresentNodes \ {Body} :
        /\ doc[m].kind = "text"
        /\ doc[m].data # <<>>
        /\ n \in AncestorsOrSelf(m)

\* the cases of isLeaf in their order
LeafByCases(n) ==
    IF ~ HasText(n) THEN FALSE
    ELSE IF Kids(n) = {} THEN doc[n].tag \notin {"SVG", "IFRAME", "SCRIPT", "STYLE", "LINK"}
    ELSE IF /\ Cardinality(Kids(n)) = 1
            /\ \E m \in Kids(n) : doc[m].kind = "text" /\ Trim(doc[m].data) # <<>>
         THEN TRUE
    ELSE FALSE

\* <span>Hello</span> at node n
SpanHello(n) ==
    /\ doc[n].tag = "SPAN"
    /\ doc[n].attrs = <<>>
    /\ Kids(n) = {n + 1}
    /\ doc[n + 1].kind = "text"
    /\ doc[n + 1].data = Hello

\* <div><span>A</span><span>B</span></div> at node 1, with the attributes the
\* div has
DivOfTwoSpans ==
    /\ doc[1].tag = "DIV"
    /\ Kids(1) = {2, 6}
    /\ doc[2].tag = "SPAN" /\ doc[6].tag = "SPAN"
    /\ doc[3].kind = "text" /\ doc[7].kind = "text"

\* C20: isLeafElement of an element is what the cases say, taken in their
\* order: false when the text content is empty, else for a childless element
\* whether its tag is off the deny-list, else whether it has exactly one child
\* that is a text node with non-blank content. After the walk, a reached
\* <span>Hello</span> that passes the style and geometry test is a candidate,
\* and the div of two spans is a candidate exactly when it is interactive.
C20_LeafCases ==
    /\ \A n \in PresentNodes \ {Body} :
           doc[n].kind = "element" => (isLeafElement(doc, n) <=> LeafByCases(n))
    /\ \A n \in {1, 4} :
           (Walked /\ SpanHello(n) /\ n \in ReachedByWalk /\ PassesStyleAndGeometry(n))
               => n \in Range(candidateElements)
    /\ (Walked /\ DivOfTwoSpans /\ PassesStyleAndGeometry(1)) =>
           /\ ~ isLeafElement(doc, 1)
           /\ 1 \in Range(candidateElements) <=> isInteractiveElement(doc[1])

\* the walk is done on a page with the div of two spans, which has no role,
\* and <span>Hello</span>: the two inner spans and the span with Hello are
\* candidates, the div is not
C20_Witness ==
    /\ Walked
    /\ DivOfTwoSpans
    /\ doc[1].attrs = <<>>
    /\ SpanHello(4)
    /\ {2, 6, 4} \subseteq Range(candidateElements)
    /\ 1 \notin Range(candidateElements)

\* the result of the pass joined in this step
JoinedResult == IF op = "processAllOfDom" THEN results'[Len(results')] ELSE ret'

\* C21: the candidate list of a pass is in document order; when the pass
\* joins its locator promises, in whichever order they settled, the i-th
\* candidate has the index i - 1 + indexOffset, its own locators under that
\* index and the i-th line of outputString, which starts with that index.
C21_DocumentOrderWhateverCompletes ==
    /\ [](Walked =>
            \A i, j \in 1..Len(candidateElements) :
                i < j => DocPosition(candidateElements[i]) < DocPosition(candidateElements[j]))
    /\ [][(pc = "locating" /\ pc' \notin {"locating", "failed"}) =>
            LET n == Len(candidateElements)
                line(i) == OutputPart(doc, candidateElements[i], i - 1 + indexOffset)
            IN  /\ completion' \in CompletionOrders(n)
                /\ DOMAIN JoinedResult.selectorMap = {i - 1 + indexOffset : i \in 1..n}
                /\ \A i \in 1..n :
                      /\ JoinedResult.selectorMap[i - 1 + indexOffset]
                            = generateXPaths(doc, candidateElements[i])
                      /\ StartsWithKey(line(i), i - 1 + indexOffset)
                /\ JoinedResult.outputString = Flatten([i \in 1..n |-> line(i)])]_vars

\* a pass of three candidates or more, none of them in the cache before, has
\* returned after its locator promises settled last to first, with an index
\* offset
C21_Witness ==
    /\ Returned
    /\ op = "processElements"
    /\ indexOffset = 1
    /\ Len(candidateElements) >= 3
    /\ generatorCalls = Len(candidateElements)
    /\ completion = [j \in 1..Len(candidateElements) |-> Len(candidateElements) + 1 - j]
    /\ DOMAIN ret.selectorMap = 1..Len(candidateElements)

\* C22: an entry of the locator cache stays as it is; a pass calls the
\* generator for exactly its candidates that are not in the cache; after a
\* pass whose generations all succeeded every candidate has a cache entry
\* equal to its selectorMap value; and a processAllOfDom call has called the
\* generator at most once for each node it returns.
C22_GeneratedAtMostOnce ==
    /\ [][\A k \in DOMAIN xpathCache :
            k \in DOMAIN xpathCache' /\ xpathCache'[k] = xpathCache[k]]_vars
    /\ [][walks' = walks + 1 =>
            generatorCalls' - (IF Idle THEN 0 ELSE generatorCalls)
                = Cardinality({n \in Range(candidateElements') :
                                 <<generation, n>> \notin DOMAIN xpathCache})]_vars
    /\ [][(pc = "locating" /\ pc' \notin {"locating", "failed"}) =>
            \A i \in 1..Len(candidateElements) :
                /\ <<generation, candidateElements[i]>> \in DOMAIN xpathCache'
                /\ xpathCache'[<<generation, candidateElements[i]>>]
                      = JoinedResult.selectorMap[i - 1 + indexOffset]]_vars
    /\ []((Returned /\ op = "processAllOfDom") =>
            generatorCalls <= Cardinality({ret.selectorMap[k] : k \in DOMAIN ret.selectorMap}))

\* processAllOfDom has returned a node in two chunks, with one generator call
\* for each node it returns
C22_Witness ==
    /\ Returned
    /\ op = "processAllOfDom"
    /\ generatorCalls > 0
    /\ generatorCalls = Cardinality({ret.selectorMap[k] : k \in DOMAIN ret.selectorMap})
    /\ generatorCalls < Cardinality(DOMAIN ret.selectorMap)

\* C23: if from some point on no scroll event arrives, every pending settle
\* wait resolves; if while a wait is pending the quiet time never reaches the
\* quiet window, because scroll events keep arriving, a pending wait stays
\* pending forever: nothing but the full quiet window ends it.
C23_SettleWaitLiveness ==
    /\ (<>[][~ ScrollEvent]_vars) => (listening ~> ~ listening)
    /\ ([](listening => quiet < QuietTicks)) => [](listening => [] listening)

\* a direct scrollToHeight call has returned after scroll events that moved
\* the window had arrived during its wait
C23_Witness ==
    /\ op = "scrollToHeight"
    /\ Returned
    /\ ~ steady
    /\ settles = 1
    /\ ~ listening

\* one of the extraction calls is running
Extracting == op \in {"processDom", "processAllOfDom", "processElements"}

\* C24: a pass with scrollToChunk = true goes from its scroll request over
\* the resolved settle wait to the tree walk, and from there to the join of
\* the locators and the result: the tree walk is the step in which the wait
\* of the pass's own scroll request resolves, and while the locators are
\* pending no wait is. A pass with scrollToChunk = false requests no scroll,
\* waits for none and leaves the scroll position as it is.
C24_ScrollSettleWalkJoin ==
    /\ []((Extracting /\ scrollToChunk /\ pc = "settling") =>
            /\ listening
            /\ Len(scrollLog) = Len(passes)
            /\ settles = Len(passes) - 1
            /\ walks = Len(passes) - 1)
    /\ []((Extracting /\ scrollToChunk /\ pc = "locating") =>
            /\ ~ listening
            /\ Len(scrollLog) = Len(passes)
            /\ settles = Len(passes)
            /\ walks = Len(passes))
    /\ [][(Extracting' /\ scrollToChunk' /\ walks' # walks /\ walks' # 0) =>
            /\ pc = "settling" /\ pc' = "locating"
            /\ listening /\ scrollEndTimer = 0 /\ ~ listening'
            /\ walks' = walks + 1
            /\ settles' = settles + 1]_vars
    /\ [][(Extracting /\ scrollToChunk /\ pc' # pc) =>
            \/ pc = "settling" /\ pc' = "locating"
            \/ pc = "locating" /\ pc' \in {"returned", "failed", "settling", "restoring"}
            \/ pc \in {"restoring", "returned", "failed"}]_vars
    /\ []((op = "processElements" /\ ~ scrollToChunk) =>
            scrollLog = <<>> /\ settles = 0 /\ ~ listening /\ pc # "settling")
    /\ [][(op' = "processElements" /\ ~ scrollToChunk') =>
            scrollY' = scrollY /\ scrollX' = scrollX]_vars

\* the second pass of processAllOfDom has walked the tree after scroll events
\* that moved the window had arrived during a wait of the call
C24_Witness ==
    /\ op = "processAllOfDom"
    /\ pc = "locating"
    /\ scrollToChunk
    /\ Len(passes) = 2
    /\ walks = 2
    /\ settles = 2
    /\ ~ steady


\* the rectangle test of element e at the scroll position the window has now
InBand(e) ==
    /\ doc[e].width > 0
    /\ doc[e].height > 0
    /\ doc[e].top - scrollY >= - doc[e].height
    /\ doc[e].top - scrollY + doc[e].height <= innerHeight + doc[e].height

\* the locator of node n was filed by the k-th pass of the running call
FiledByPass(k, n) ==
    /\ k \in 1..Len(results)
    /\ \E i \in DOMAIN results[k].selectorMap :
           results[k].selectorMap[i] = generateXPaths(doc, n)

\* C25: the visibility verdicts of a pass are those of the pass itself: after
\* the tree walk every verdict in the pass's cache is the rectangle test of
\* its element at the scroll position of this pass, whatever an earlier pass
\* found, the cache holds a verdict for exactly the elements whose rectangle
\* the walk read, and the walk read no element's rectangle twice.
C25_VerdictsOfThisPass ==
    Walked =>
        /\ \A e \in DOMAIN visibilityCache : visibilityCache[e] <=> InBand(e)
        /\ DOMAIN visibilityCache = Range(rectReads)
        /\ \A i, j \in 1..Len(rectReads) : rectReads[i] = rectReads[j] => i = j

\* the second pass of a whole-page extraction has walked: element 4, at the
\* top of the page, was in the band of the first pass, which filed its
\* locator, and has the verdict "not visible" in the cache of the second
C25_Witness ==
    /\ Walked
    /\ op = "processAllOfDom"
    /\ Len(results) = 1
    /\ scrollY = 2
    /\ doc[4].kind = "element"
    /\ doc[4].top = 0
    /\ FiledByPass(1, 4)
    /\ 4 \in DOMAIN visibilityCache
    /\ ~ visibilityCache[4]


\* the token markers below element e
MarkersBelow(e) ==
    {n \in PresentNodes \ {Body} :
        /\ doc[n].kind = "element"
        /\ GetAttribute(doc[n], "class") = "stagehand-highlighted-word"
        /\ e \in AncestorsOrSelf(Parent(n))}

\* the token marker w gives a box that is kept
MarkerCounts(w) ==
    /\ doc[w].width > 0
    /\ 3 * doc[w].height > 0
    /\ doc[w].top >= 0
    /\ doc[w].left >= 0
    /\ Trim(TextContent(doc, w)) # <<>>

\* the box of node n in page coordinates at three quarters of its height
CompressedBox(n, text) ==
    [text |-> text, top |-> doc[n].top, left |-> doc[n].left,
     width |-> doc[n].width, height |-> 3 * doc[n].height]

\* the fallback text of node n
FallbackText(n) ==
    CASE doc[n].tag \in {"INPUT", "TEXTAREA"} /\ HasAttribute(doc[n], "placeholder")
             -> <<GetAttribute(doc[n], "placeholder")>>
      [] doc[n].tag = "IMG" /\ HasAttribute(doc[n], "alt")
             -> <<GetAttribute(doc[n], "alt")>>
      [] OTHER -> <<>>

\* what the call returns for node n, which has no option below it: the boxes
\* of the token markers that count, in document order, else the one box of n
BoxesWithoutOption(n, boxes) ==
    LET kept == {w \in MarkersBelow(n) : MarkerCounts(w)}
    IN  /\ boxes # <<>>
        /\ IF kept # {}
           THEN /\ Len(boxes) = Cardinality(kept)
                /\ \A i \in 1..Len(boxes) :
                       \E w \in kept :
                           /\ boxes[i] = CompressedBox(w, TextContent(doc, w))
                           /\ Cardinality({v \in kept : DocPosition(v) < DocPosition(w)}) = i - 1
           ELSE boxes = << CompressedBox(n, FallbackText(n)) >>

\* C26: when the locator resolves to a node with no option below it, the call
\* returns, and never an empty array: the boxes of the token markers with a
\* positive width and height, a non-negative top and left and a non-blank
\* text when there is one, each at three quarters of the marker's height, else
\* one box of the node's rectangle at three quarters of its height with the
\* placeholder of an input or textarea, the alt text of an image and the
\* empty text for any other node.
C26_BoxesWithoutOption ==
    [][BoxesCalled =>
          \A n \in PresentNodes :
              (PathOf(doc, n) = arg'[1] /\ OptionsBelow(n) = {}) =>
                  /\ pc' = "returned"
                  /\ BoxesWithoutOption(n, ret'.boxes)]_vars

\* the same for the elements only
C26_ElementsOnly ==
    [][BoxesCalled =>
          \A n \in PresentNodes :
              (/\ doc[n].kind = "element"
               /\ PathOf(doc, n) = arg'[1]
               /\ OptionsBelow(n) = {}) =>
                  /\ pc' = "returned"
                  /\ BoxesWithoutOption(n, ret'.boxes)]_vars


\* element n is one that is to be emitted: it has a rectangle, is active,
\* passes the style test and is interactive or a leaf
ToBeEmitted(n) ==
    /\ doc[n].kind = "element"
    /\ doc[n].width > 0
    /\ doc[n].height > 0
    /\ isActive(doc[n])
    /\ doc[n].style.display # "none"
    /\ doc[n].style.visibility # "hidden"
    /\ doc[n].style.opacity # "0"
    /\ (isInteractiveElement(doc[n]) \/ isLeafElement(doc, n))

\* the locator of node n is in the selector map that processAllOfDom returns
\* and was filed by one of its passes
Emitted(n) ==
    /\ \E i \in DOMAIN ret.selectorMap : ret.selectorMap[i] = generateXPaths(doc, n)
    /\ \E k \in 1..Len(results) : FiledByPass(k, n)

Childless ==
    {n \in PresentNodes \ {Body} :
        /\ doc[n].kind = "element"
        /\ \A m \in PresentNodes \ {Body} : Parent(m) # n}

\* C29: an element without child nodes is never a leaf, whatever its tag,
\* and after the tree walk of a pass a childless element is in the candidate
\* list only if it is interactive.
C29_ChildlessNeverLeaf ==
    /\ \A n \in Childless : ~ isLeafElement(doc, n)
    /\ Walked =>
           \A n \in Childless :
               n \in Range(candidateElements) => isInteractiveElement(doc[n])

\* the walk is done on a page whose first element is a childless span
\* without a role, a tag that is not on the deny-list, in the band and
\* visible: it is no candidate, while <span>Hello</span> is
C29_Witness ==
    /\ Walked
    /\ 1 \in Childless
    /\ doc[1].tag = "SPAN"
    /\ doc[1].tag \notin leafElementDenyList
    /\ ~ isInteractiveElement(doc[1])
    /\ 1 \in ReachedByWalk
    /\ PassesStyleAndGeometry(1)
    /\ 1 \notin Range(candidateElements)
    /\ 4 \in Range(candidateElements)


\* an attempt ends in this step: the model was called and has answered
AttemptEnds == llm'.calls = llm.calls + 1

\* the answer of the attempt that ends in this step
Answer == llm'.attempts[Len(llm'.attempts)]

\* the attempt that ends in this step got tool-call arguments that do not parse
Unparsable == Answer.kind = "tool" /\ Answer.arguments # "{}"

\* what is to follow a failed attempt: the cache as it was, and a new attempt
\* with one retry less, or the error thrown when no retry is left
FailureFollowedUp ==
    /\ llm'.cache = llm.cache
    /\ IF llm.retries > 0
       THEN llm'.pc = "generating" /\ llm'.retries = llm.retries - 1
       ELSE /\ llm'.pc = "thrown"
            /\ llm'.out.kind = "error"
            /\ llm'.out.name = IF Answer.kind = "error" THEN "request" ELSE "SyntaxError"

\* a call that finds a response in the cache returns it without a model call
CacheHitAnswers ==
    (llm.pc = "idle" /\ llm'.pc # "idle" /\ llm.enableCaching /\ llm.cache # NoAnswer) =>
        /\ llm'.pc = "returned"
        /\ llm'.out = llm.cache
        /\ llm'.calls = 0

\* C30: createChatCompletion called with retries = r makes at most r + 1
\* calls to the model; an attempt that fails, by a request error or by
\* tool-call arguments that do not parse, leaves the cache as it was and is
\* followed by a new attempt with the retry count lowered by one, or by the
\* error of this attempt being thrown when the count is 0; with caching
\* enabled and a response in the cache no call to the model is made.
C30_RetriesBounded ==
    /\ [](llm.calls <= llm.given + 1)
    /\ [][(AttemptEnds /\ (Answer.kind = "error" \/ Unparsable)) => FailureFollowedUp]_vars
    /\ [][CacheHitAnswers]_vars

\* the same where only the arguments of a tool call named extract_data count
\* as arguments that do not parse
C30_ExtractDataOnly ==
    /\ [](llm.calls <= llm.given + 1)
    /\ [][(AttemptEnds /\ (Answer.kind = "error"
                             \/ (Unparsable /\ Answer.name = "extract_data")))
              => FailureFollowedUp]_vars
    /\ [][CacheHitAnswers]_vars
    /\ [](llm.pc = "thrown" => llm.calls = llm.given + 1)


\* the offset the window has after a scroll to chunk c
ChunkOffset(c) ==
    Max(0, Min(Min(innerHeight * c, scrollHeight - innerHeight), scrollHeight - innerHeight))

\* the first call walks the tree in this step
FirstWalks == walks' = walks + 1

\* the second call walks the tree in this step
SecondWalks == second.pc = "settling" /\ second'.pc = "locating"

\* C28: with two extraction calls in flight that scroll to different chunks,
\* each call walks the tree with the window at the offset of its own chunk,
\* min(chunk * V, H - V), and so finds the candidates of its own chunk.
C28_EachWalksAtItsOwnOffset ==
    /\ [][(FirstWalks /\ scrollToChunk) =>
              /\ scrollY = ChunkOffset(chunk)
              /\ candidateElements' = FindCandidates(doc, ChunkOffset(chunk), innerHeight)]_vars
    /\ [][SecondWalks =>
              /\ scrollY = ChunkOffset(second.chunk)
              /\ second'.cands = FindCandidates(doc, ChunkOffset(second.chunk), innerHeight)]_vars

\* the same for the calls of one caller, one at a time
C28_AloneWalksAtItsOwnOffset ==
    [][(FirstWalks /\ scrollToChunk /\ second.pc = "none" /\ steady) =>
           /\ scrollY = ChunkOffset(chunk)
           /\ candidateElements' = FindCandidates(doc, ChunkOffset(chunk), innerHeight)]_vars

====
